---- MODULE Spec2Model ----
(***************************************************************************)
(* Identity-verification workflow of amazon-rekognition-identity-          *)
(* verification (backend/): the upload (ingress) handler, the S3-event     *)
(* trigger, the Step Functions state machine declared in                   *)
(* idplusselfie_stack.py and the Lambda handlers it invokes.               *)
(*                                                                         *)
(* The model follows one submission (one uuid, VID).  The record store is  *)
(* a set of items keyed by (VerificationId, Timestamp); the object store   *)
(* is a set of keys.  Confidences and similarities are integers in         *)
(* thousandths of a percent, so that the handlers' rounding to two         *)
(* decimals is computed and not assumed.                                   *)
(***************************************************************************)
EXTENDS Integers, Sequences, FiniteSets, TLC

\* ------------------------------------------------------------------ bounds
\* trigger invocations (S3 deliveries and direct invocations) in one behaviour
MaxDeliveries == 2
\* executions started through the entry handler in one behaviour
MaxEntryStarts == 1
\* invocations of the status-update handler in one behaviour
MaxStatusUpdates == 1
\* further trigger invocations, for events delivered again once both upload
\* flags are recorded
MaxRedeliveries == 1
\* re-invocations of a run's task by the Retry of its LambdaInvoke state
MaxRetries == 1
\* the latest reading of the ingress clock, in seconds
MaxClock == 60

\* ------------------------------------------------------- program constants
\* id_moderate_lambda.py:142, "label['Confidence'] > 80", in hundredths
ModerationThreshold == 8000
\* id_compare_faces_lambda.py:95, SimilarityThreshold=80.0, in thousandths
SimilarityThreshold == 80000
\* id_compare_faces_lambda.py:152, Decimal('80'), in hundredths
MinSimilarityThreshold == 8000
\* id_analyze_lambda.py:179, Decimal('90.0'), in hundredths
ConfidenceThreshold == 9000

\* ------------------------------------------------------------ value spaces
VID == "v1"
NOW == 1
\* id_upload_lambda line 17 and the stack's environment: days until expiry
TTL_DAYS == 365
\* datetime.timedelta(days=...), line 86: a day in the seconds of timestamp()
SecondsPerDay == 86400
BucketName == "bucket"
Absent == "absent"
Email == "user@example.com"

\* an object key "<dir>/<name>.<ext>"
Key(dir, name, ext) == [dir |-> dir, name |-> name, ext |-> ext]
\* "s3://<bucket>/<key>"
S3Uri(key) == [bucket |-> BucketName, key |-> key]
NoUri == [bucket |-> Absent, key |-> Key(Absent, Absent, Absent)]
NoKey == Key(Absent, Absent, Absent)

\* id_moderate_lambda.get_s3_key_from_uri (same in compare and resize)
get_s3_key_from_uri(s3_uri) == s3_uri.key

\* f"resized_{dl_key}" in id_resize_lambda.lambda_handler
ResizedKey(key) == Key("resized_" \o key.dir, key.name, key.ext)

\* ------------------------------------------------------------ record store
\* the attributes an item can carry; Absent / <<>> / FALSE mean "not set"
BlankItem(vid, ts) ==
  [ VerificationId |-> vid, Timestamp |-> ts,
    TTL |-> 0, Status |-> Absent, UserEmail |-> Absent,
    IdentificationS3Key |-> NoUri, SelfieImageS3Key |-> NoUri,
    IdentificationImageResizedS3Key |-> NoUri,
    SelfieImageResizedS3Key |-> NoUri,
    identityUploaded |-> FALSE, selfieUploaded |-> FALSE,
    identityS3Key |-> NoKey, selfieS3Key |-> NoKey,
    ModerationLabels |-> <<>>, ModerationStatus |-> Absent,
    FaceMatchResults |-> <<>>,
    ResizedDLImageS3Key |-> NoUri, ResizedSelfieImageS3Key |-> NoUri,
    StateMachineStatus |-> Absent, ErrorMessage |-> Absent,
    IDAnalysisResults |-> <<>>, IDAnalysisStatus |-> Absent,
    DocumentType |-> Absent, DocumentNumber |-> Absent ]

\* table.query(VerificationId = vid, ScanIndexForward=False, Limit=1)['Items']
Query(tbl, vid) ==
  LET its == {i \in tbl : i.VerificationId = vid}
  IN  IF its = {} THEN <<>>
      ELSE <<CHOOSE i \in its : \A j \in its : j.Timestamp <= i.Timestamp>>

\* an update_item that is given a new sort key instead of the one resolved by
\* the query: it always adds an item
UpdateItemNewKey(tbl, vid, ts, changes) ==
  LET old == BlankItem(vid, ts + 1)
      new == [f \in DOMAIN old |->
                 IF f \in DOMAIN changes THEN changes[f] ELSE old[f]]
  IN  tbl \cup {new}

\* table.update_item(Key=(vid, ts), SET ...): DynamoDB edits the item with
\* that key, or adds a new item holding only the key and the SET attributes
UpdateItem(tbl, vid, ts, changes) ==
  LET hit == {i \in tbl : i.VerificationId = vid /\ i.Timestamp = ts}
      old == IF hit = {} THEN BlankItem(vid, ts) ELSE CHOOSE i \in hit : TRUE
      new == [f \in DOMAIN old |->
                 IF f \in DOMAIN changes THEN changes[f] ELSE old[f]]
  IN  (tbl \ hit) \cup {new}

\* every trigger invocation starts at most one execution
MaxExec == MaxDeliveries + MaxRedeliveries + MaxEntryStarts

\* trigger invocations in one behaviour, first deliveries and repeated ones
MaxTrig == MaxDeliveries + MaxRedeliveries

\* ---------------------------------------------------------------- variables
VARIABLES
  table,     \* record store: set of items
  bucket,    \* object store: set of keys
  events,    \* object-created notifications not yet delivered to the trigger
  ing,       \* the one upload (ingress) request
  trig,      \* trigger invocations, by delivery number
  nDeliv,    \* trigger invocations so far
  runs,      \* state-machine executions, by start number
  nExec,     \* executions started so far
  nUpd,      \* status-update invocations so far
  direct,    \* TRUE once a handler was invoked other than by the deployed wiring
  ana,       \* the one invocation of the extraction (ID analysis) handler
  upd,       \* how the last status-update invocation ended
  del        \* the one deletion request

vars == <<table, bucket, events, ing, trig, nDeliv, runs, nExec, nUpd, direct, ana, upd, del>>

\* ------------------------------------------------------------------ ingress
\* the submission body: each image field is missing (absent or empty),
\* malformed (base64 that b64decode rejects: wrong padding or length),
\* garbled (characters outside the base64 alphabet, which b64decode discards
\* before decoding) or valid
ImageInputs == {"missing", "malformed", "garbled", "valid"}

\* the image fields of the submissions followed through the whole workflow
\* (a garbled image is stored and processed like a valid one)
PlainInputs == ImageInputs \ {"garbled"}

\* base64.b64decode(s), validate=False: it raises binascii.Error for wrong
\* padding and decodes everything else
b64decode(image) == IF image = "malformed" THEN "raises" ELSE "bytes"

IdKey == Key("identity", VID, "jpg")
SelfieKey == Key("selfie", VID, "jpg")

\* idplusselfie_stack.py:486-500: OBJECT_CREATED_PUT notifications with
\* key-prefix filters "dl/" and "selfie/"
NotificationPrefixes == {"dl", "selfie"}

\* a notification filter that matches the category anywhere in the key
NotifiesAnywhere(key) ==
  key.dir \in NotificationPrefixes \cup {"resized_" \o dir : dir \in NotificationPrefixes}

\* the filter of the two notifications, applied to a key
Notifies(key) == key.dir \in NotificationPrefixes

\* s3_client.put_object on the upload bucket, with the bucket's notification
PutObject(key) ==
  /\ bucket' = bucket \cup {key}
  /\ events' = IF Notifies(key) THEN events \cup {key} ELSE events

IngIdle == [pc |-> "idle", code |-> 0, email |-> Absent,
            identity |-> "none", selfie |-> "none"]

\* an ingress that stores the identity image before it decodes the selfie
IngressValidateStoreFirst(identity, selfie, email) ==
  /\ ing.pc = "idle"
  /\ LET request == [IngIdle EXCEPT !.email = email, !.identity = identity,
                                    !.selfie = selfie]
         stored == identity # "missing" /\ selfie # "missing"
                     /\ b64decode(identity) = "bytes" /\ b64decode(selfie) = "raises"
     IN  /\ ing' = IF identity = "missing" \/ selfie = "missing"
                      THEN [request EXCEPT !.pc = "done", !.code = 400]
                    ELSE IF b64decode(identity) = "raises" \/ b64decode(selfie) = "raises"
                      THEN [request EXCEPT !.pc = "done", !.code = 500]
                    ELSE [request EXCEPT !.pc = "put_id"]
         /\ bucket' = IF stored THEN bucket \cup {Key("identity", VID, "jpg")} ELSE bucket
  /\ UNCHANGED <<del, ana, upd, table, events, trig, nDeliv, runs, nExec, nUpd, direct>>

\* handle_api_request, lines 77-97: validation and decoding.  A missing image
\* raises KeyError (400); a b64decode that raises binascii.Error is turned
\* into 500 by the generic except branch (148-150).
IngressValidate(identity, selfie, email) ==
  /\ ing.pc = "idle"
  /\ LET request == [IngIdle EXCEPT !.email = email, !.identity = identity,
                                    !.selfie = selfie]
     IN  ing' = IF identity = "missing" \/ selfie = "missing"
                  THEN [request EXCEPT !.pc = "done", !.code = 400]
                ELSE IF b64decode(identity) = "raises" \/ b64decode(selfie) = "raises"
                  THEN [request EXCEPT !.pc = "done", !.code = 500]
                ELSE [request EXCEPT !.pc = "put_id"]
  /\ UNCHANGED <<del, ana, upd, table, bucket, events, trig, nDeliv, runs, nExec, nUpd, direct>>

\* handle_api_request, lines 106-111: put_object of the identity image
IngressPutIdentity(ok) ==
  /\ ing.pc = "put_id"
  /\ IF ok THEN /\ PutObject(IdKey)
                /\ ing' = [ing EXCEPT !.pc = "put_selfie"]
           ELSE /\ UNCHANGED <<bucket, events>>
                /\ ing' = [ing EXCEPT !.pc = "done", !.code = 500]
  /\ UNCHANGED <<del, ana, upd, table, trig, nDeliv, runs, nExec, nUpd, direct>>

\* handle_api_request, lines 112-117: put_object of the selfie image
IngressPutSelfie(ok) ==
  /\ ing.pc = "put_selfie"
  /\ IF ok THEN /\ PutObject(SelfieKey)
                /\ ing' = [ing EXCEPT !.pc = "put_item"]
           ELSE /\ UNCHANGED <<bucket, events>>
                /\ ing' = [ing EXCEPT !.pc = "done", !.code = 500]
  /\ UNCHANGED <<del, ana, upd, table, trig, nDeliv, runs, nExec, nUpd, direct>>

\* an initial item written with another status
\* an expiry that adds the retention window as if it were seconds
ttlInSeconds(current_time) == current_time + TTL_DAYS

\* handle_api_request, line 86: ttl, from the clock reading of line 84
ttl(current_time) == current_time + TTL_DAYS * SecondsPerDay

InitialItemPending(email) ==
  [ BlankItem(VID, NOW) EXCEPT
      !.TTL = ttl(NOW),
      !.Status = "PENDING",
      !.UserEmail = email,
      !.IdentificationS3Key = S3Uri(IdKey),
      !.SelfieImageS3Key = S3Uri(SelfieKey) ]

\* the item written by handle_api_request, lines 122-134
ItemAt(email, current_time) ==
  [ BlankItem(VID, current_time) EXCEPT
      !.TTL = ttl(current_time),
      !.Status = "PROCESSING",
      !.UserEmail = email,
      !.IdentificationS3Key = S3Uri(IdKey),
      !.IdentificationImageResizedS3Key = S3Uri(Key("resized_id", VID, "jpg")),
      !.SelfieImageS3Key = S3Uri(SelfieKey),
      !.SelfieImageResizedS3Key = S3Uri(Key("resized_selfie", VID, "jpg")) ]

\* the item of a submission received at the clock reading NOW
InitialItem(email) == ItemAt(email, NOW)

\* the readings of the ingress clock
ClockReadings == 0..MaxClock

\* handle_api_request, lines 68-143, for a valid submission received at the
\* clock reading current_time, all calls accepted: both objects stored, the
\* item written, 200 returned
HandleApiRequest(email, current_time) ==
  /\ ing.pc = "idle"
  /\ bucket' = bucket \cup {IdKey, SelfieKey}
  /\ events' = events \cup {key \in {IdKey, SelfieKey} : Notifies(key)}
  /\ table' = table \cup {ItemAt(email, current_time)}
  /\ ing' = [IngIdle EXCEPT !.pc = "done", !.code = 200, !.email = email,
                            !.identity = "valid", !.selfie = "valid"]
  /\ UNCHANGED <<del, ana, upd, trig, nDeliv, runs, nExec, nUpd, direct>>

\* handle_api_request, lines 121-143: put_item and the 200 response
IngressPutItem(ok) ==
  /\ ing.pc = "put_item"
  /\ IF ok THEN /\ table' = table \cup {InitialItem(ing.email)}
                /\ ing' = [ing EXCEPT !.pc = "done", !.code = 200]
           ELSE /\ UNCHANGED table
                /\ ing' = [ing EXCEPT !.pc = "done", !.code = 500]
  /\ UNCHANGED <<del, ana, upd, bucket, events, trig, nDeliv, runs, nExec, nUpd, direct>>

\* ------------------------------------------------------------------ trigger
\* id_trigger_stepfunction_lambda.get_file_info_from_key
get_file_info_from_key(key) ==
  [ verification_id |-> key.name,
    extension |-> key.ext,
    type |-> IF key.dir = "identity" THEN "identity" ELSE "selfie" ]

\* the attributes of the queried item that update_upload_status reads
ItemRead(item) ==
  [ Timestamp |-> item.Timestamp,
    identityUploaded |-> item.identityUploaded,
    selfieUploaded |-> item.selfieUploaded ]

\* the attributes of the queried item that start_state_machine reads
RecordRead(item) ==
  [ identityS3Key |-> item.identityS3Key,
    selfieS3Key |-> item.selfieS3Key,
    UserEmail |-> item.UserEmail ]

TrigIdle == [pc |-> "idle", key |-> NoKey, item |-> <<>>,
             id_present |-> FALSE, selfie_present |-> FALSE,
             record |-> <<>>, code |-> 0]

\* the keys a trigger event can name: the two originals of the submission
OriginalKeys == {IdKey, SelfieKey}

\* the keys of the submission the bucket sends notifications for
NotifiedKeys == {k \in OriginalKeys : Notifies(k)}

\* the Lambda service invokes lambda_handler with one S3 event (lines 127-137)
TriggerBegin(key) ==
  /\ nDeliv < MaxDeliveries
  /\ nDeliv' = nDeliv + 1
  /\ trig' = [trig EXCEPT ![nDeliv + 1] = [TrigIdle EXCEPT !.pc = "query", !.key = key]]

\* delivery of a pending object-created notification; S3 delivers at least
\* once, so the notification may stay pending (redeliver)
TriggerReceive(key, redeliver) ==
  /\ key \in events
  /\ TriggerBegin(key)
  /\ events' = IF redeliver THEN events ELSE events \ {key}
  /\ UNCHANGED <<del, ana, upd, table, bucket, ing, runs, nExec, nUpd, direct>>

\* lambda_handler invoked with an event naming a stored original, not through
\* the bucket notification
InvokeTriggerDirect(key) ==
  /\ key \in OriginalKeys \cap bucket
  /\ TriggerBegin(key)
  /\ direct' = TRUE
  /\ UNCHANGED <<del, ana, upd, table, bucket, events, ing, runs, nExec, nUpd>>

\* an object-created event of the submission delivered again (S3 delivers at
\* least once) when both upload flags are already recorded
TriggerRedeliver(key) ==
  /\ key \in OriginalKeys \cap bucket
  /\ \E item \in table : /\ item.VerificationId = key.name
                          /\ item.identityUploaded /\ item.selfieUploaded
  /\ nDeliv < MaxTrig
  /\ nDeliv' = nDeliv + 1
  /\ trig' = [trig EXCEPT ![nDeliv + 1] = [TrigIdle EXCEPT !.pc = "query", !.key = key]]
  /\ direct' = (direct \/ ~Notifies(key))
  /\ UNCHANGED <<del, ana, upd, table, bucket, events, ing, runs, nExec, nUpd>>

\* update_upload_status, lines 40-47 and 82: the query; no item -> (False, False)
TriggerQuery(i) ==
  /\ trig[i].pc = "query"
  /\ LET items == Query(table, get_file_info_from_key(trig[i].key).verification_id)
     IN  trig' = [trig EXCEPT ![i] =
                    IF items = <<>>
                      THEN [@ EXCEPT !.pc = "decide"]
                      ELSE [@ EXCEPT !.pc = "update", !.item = <<ItemRead(items[1])>>]]
  /\ UNCHANGED <<del, ana, upd, table, bucket, events, ing, nDeliv, runs, nExec, nUpd, direct>>

\* a SET clause that stores the uploaded object's key in the record's
\* reference to the original image
UploadChangesIntoRefs(file_type, s3_key) ==
  IF file_type = "identity"
    THEN [identityUploaded |-> TRUE, identityS3Key |-> s3_key,
          IdentificationS3Key |-> [bucket |-> Absent, key |-> s3_key]]
    ELSE [selfieUploaded |-> TRUE, selfieS3Key |-> s3_key,
          SelfieImageS3Key |-> [bucket |-> Absent, key |-> s3_key]]

\* the SET clause of update_upload_status, lines 54-65
UploadChanges(file_type, s3_key) ==
  IF file_type = "identity"
    THEN [identityUploaded |-> TRUE, identityS3Key |-> s3_key]
    ELSE [selfieUploaded |-> TRUE, selfieS3Key |-> s3_key]

\* the pair returned by update_upload_status, lines 77-80: computed from the
\* item read by the query, not from the item after the update
UploadFlags(item, file_type) ==
  [ id_present |-> item.identityUploaded \/ file_type = "identity",
    selfie_present |-> item.selfieUploaded \/ file_type = "selfie" ]

\* update_upload_status, lines 51-80: update_item and the returned pair
TriggerUpdate(i) ==
  /\ trig[i].pc = "update"
  /\ LET info == get_file_info_from_key(trig[i].key)
         item == trig[i].item[1]
         flags == UploadFlags(item, info.type)
     IN  /\ table' = UpdateItem(table, info.verification_id, item.Timestamp,
                                UploadChanges(info.type, trig[i].key))
         /\ trig' = [trig EXCEPT ![i] = [@ EXCEPT !.pc = "decide", !.item = <<>>,
                                            !.id_present = flags.id_present,
                                            !.selfie_present = flags.selfie_present]]
  /\ UNCHANGED <<del, ana, upd, bucket, events, ing, nDeliv, runs, nExec, nUpd, direct>>

\* a trigger that goes on when either image is present
TriggerDecideEither(i) ==
  /\ trig[i].pc = "decide"
  /\ LET t == trig[i]
         items == Query(table, get_file_info_from_key(t.key).verification_id)
     IN  trig' = [trig EXCEPT ![i] =
           IF t.id_present \/ t.selfie_present
             THEN IF items = <<>>
                    THEN [@ EXCEPT !.pc = "done", !.code = 500]
                    ELSE [@ EXCEPT !.pc = "start", !.record = <<RecordRead(items[1])>>]
             ELSE [@ EXCEPT !.pc = "done", !.code = 200]]
  /\ UNCHANGED <<del, ana, upd, table, bucket, events, ing, nDeliv, runs, nExec, nUpd, direct>>

\* lambda_handler, lines 143-157 and 173-181: the branch on both flags and
\* the second query
TriggerDecide(i) ==
  /\ trig[i].pc = "decide"
  /\ LET t == trig[i]
         items == Query(table, get_file_info_from_key(t.key).verification_id)
     IN  trig' = [trig EXCEPT ![i] =
           IF t.id_present /\ t.selfie_present
             THEN IF items = <<>>
                    THEN [@ EXCEPT !.pc = "done", !.code = 500]
                    ELSE [@ EXCEPT !.pc = "start", !.record = <<RecordRead(items[1])>>]
             ELSE [@ EXCEPT !.pc = "done", !.code = 200]]
  /\ UNCHANGED <<del, ana, upd, table, bucket, events, ing, nDeliv, runs, nExec, nUpd, direct>>

\* ---------------------------------------------------- state-machine runs
\* the result a LambdaInvoke task stores at its result_path: absent, or the
\* handler's response; "full" tells whether the response carries the payload
\* fields the notification states read (moderation_results, details,
\* resized_paths) or only an error message
NoResult == [present |-> FALSE, success |-> FALSE, full |-> FALSE]
Result(success, full) == [present |-> TRUE, success |-> success, full |-> full]

NoMail == [kind |-> "none", sent |-> FALSE]

\* an execution input: the document key travels under the field docField
Payload(vid, docField, doc, selfie, email) ==
  [ verification_id |-> vid, docField |-> docField, doc |-> doc,
    selfie_key |-> selfie, user_email |-> email ]
NoPayload == Payload(Absent, Absent, NoUri, NoUri, Absent)

\* the top-level fields of an execution input
PayloadFields(p) ==
  {"verification_id", p.docField, "selfie_key", "user_email",
   "status", "timestamp", "success"}

RunNone == [st |-> "none", by |-> "none", input |-> NoPayload, status |-> Absent,
            moderation_result |-> NoResult, comparison_result |-> NoResult,
            resize_result |-> NoResult, labels |-> <<>>, face |-> <<>>,
            ran |-> {}, mail |-> NoMail, error |-> "none", failed |-> "none",
            timestamp |-> 0, attempts |-> 0, outbox |-> <<>>]

\* sfn_client.start_execution(input=...)
StartExecution(payload, by) ==
  /\ nExec < MaxExec
  /\ nExec' = nExec + 1
  /\ runs' = [runs EXCEPT ![nExec + 1] =
                [RunNone EXCEPT !.st = "InitialState", !.by = by, !.input = payload]]

\* start_state_machine, lines 94-109: the input built from the record
TriggerPayload(verification_id, dynamo_record) ==
  Payload(verification_id, "id_key", S3Uri(dynamo_record.identityS3Key),
          S3Uri(dynamo_record.selfieS3Key), dynamo_record.UserEmail)

\* lambda_handler, lines 159-172, and start_state_machine, lines 88-121
TriggerStart(i) ==
  /\ trig[i].pc = "start"
  /\ LET rec == trig[i].record[1]
         vid == get_file_info_from_key(trig[i].key).verification_id
     IN  IF rec.identityS3Key = NoKey \/ rec.selfieS3Key = NoKey
           THEN /\ trig' = [trig EXCEPT ![i] =
                              [@ EXCEPT !.pc = "done", !.record = <<>>, !.code = 500]]
                /\ UNCHANGED <<runs, nExec>>
           ELSE /\ StartExecution(TriggerPayload(vid, rec), "trigger")
                /\ trig' = [trig EXCEPT ![i] =
                              [@ EXCEPT !.pc = "done", !.record = <<>>, !.code = 200]]
  /\ UNCHANGED <<del, ana, upd, table, bucket, events, ing, nDeliv, nUpd, direct>>

\* the request bodies given to id_entry_lambda: the orchestrator payload of
\* the stored submission
EntryBodies ==
  { Payload(VID, "dl_key", S3Uri(IdKey), S3Uri(SelfieKey), Email) }

\* id_entry_lambda.start_step_function: the request body becomes the input
EntryStart(body) ==
  /\ Cardinality({r \in 1..MaxExec : runs[r].by = "entry"}) < MaxEntryStarts
  /\ StartExecution(body, "entry")
  /\ direct' = TRUE
  /\ UNCHANGED <<del, ana, upd, table, bucket, events, ing, trig, nDeliv, nUpd>>

RunFrame == <<events, ing, trig, nDeliv, nExec, nUpd, direct, ana, upd, del>>

\* the fields InitialState and ProcessVerification read from their input
RequiredInput == {"verification_id", "user_email", "dl_key", "selfie_key"}

\* InitialState (Pass): a parameter path missing from the input fails the
\* execution with States.Runtime
InitialState(r) ==
  /\ runs[r].st = "InitialState"
  /\ runs' = [runs EXCEPT ![r] =
       IF RequiredInput \subseteq PayloadFields(@.input)
         THEN [@ EXCEPT !.st = "ProcessVerification", !.status = "STARTED"]
         ELSE [@ EXCEPT !.st = "Aborted", !.error = "States.Runtime"]]
  /\ UNCHANGED <<table, bucket>> /\ UNCHANGED RunFrame

\* a ProcessVerification whose next state is the comparison task, so that the
\* comparison is invoked without the moderation having returned
ProcessVerificationSkips(r) ==
  /\ runs[r].st = "ProcessVerification"
  /\ runs' = [runs EXCEPT ![r] = [@ EXCEPT !.st = "CompareFaces", !.status = "PROCESSING"]]
  /\ UNCHANGED <<table, bucket>> /\ UNCHANGED RunFrame

\* ProcessVerification (Pass)
ProcessVerification(r) ==
  /\ runs[r].st = "ProcessVerification"
  /\ runs' = [runs EXCEPT ![r] = [@ EXCEPT !.st = "ModerateImages", !.status = "PROCESSING"]]
  /\ UNCHANGED <<table, bucket>> /\ UNCHANGED RunFrame

\* --------------------------------------------------------------- moderation
\* a quantize that rounds half up instead of half to even
quantize2HalfUp(c) == (c + 5) \div 10

\* Decimal(str(x)).quantize(Decimal('.01')): thousandths to hundredths,
\* rounding half to even (the decimal module's default)
quantize2(c) ==
  LET q == c \div 10
      m == c % 10
  IN  IF m > 5 \/ (m = 5 /\ q % 2 = 1) THEN q + 1 ELSE q

\* the label confidences the moderation service can report for one image
LabelLists == { <<>>, <<80005>>, <<80006>>, <<50000, 91000>> }

\* the (document, selfie) label lists of one moderation
LabelPairs ==
  { <<(<<>>), (<<>>)>>, <<(<<80005>>), (<<>>)>>,
    <<(<<>>), (<<50000, 91000>>)>>, <<(<<80006>>), (<<80005>>)>> }

\* id_moderate_lambda.moderate_image, lines 37-46: the labels returned for
\* the service's ModerationLabels, each confidence quantized
moderate_image(raw) == [i \in 1..Len(raw) |-> quantize2(raw[i])]

\* lambda_handler, lines 141-145
concerning_labels(dl_moderation, selfie_moderation) ==
  \/ \E i \in 1..Len(dl_moderation) : dl_moderation[i] > ModerationThreshold
  \/ \E i \in 1..Len(selfie_moderation) : selfie_moderation[i] > ModerationThreshold

\* a task whose Lambda invocation itself fails (timeout, throttling): no state
\* of the machine declares a Catch, so the execution fails there
TaskFailed(r, step) ==
  runs' = [runs EXCEPT ![r] = [@ EXCEPT !.st = "Aborted", !.ran = @ \cup {step},
                                        !.error = "States.TaskFailed",
                                        !.failed = step]]

\* ModerateImages (LambdaInvoke of id_moderate_lambda.lambda_handler,
\* result_path $.moderation_result)
ModerateImages(r, dl_raw, selfie_raw, outcome) ==
  /\ runs[r].st = "ModerateImages"
  /\ LET vid == runs[r].input.verification_id
         dl_moderation == moderate_image(dl_raw)
         selfie_moderation == moderate_image(selfie_raw)
         items == Query(table, vid)
         done(res, reported) == runs' = [runs EXCEPT ![r] =
                         [@ EXCEPT !.st = "ModerationCheck",
                                   !.moderation_result = res,
                                   !.labels = reported,
                                   !.ran = @ \cup {"moderate"}]]
     IN  CASE outcome = "invoke_failed" ->
                /\ TaskFailed(r, "moderate")
                /\ UNCHANGED table
           [] outcome = "service_error" ->
                \* detect_moderation_labels raises: the except branch
                /\ done(Result(FALSE, FALSE), <<>>)
                /\ UNCHANGED table
           [] OTHER ->
                IF items = <<>>
                  THEN \* update_dynamodb_record raises "No record found"
                       /\ done(Result(FALSE, FALSE), <<dl_raw, selfie_raw>>)
                       /\ UNCHANGED table
                  ELSE /\ table' = UpdateItem(table, vid, items[1].Timestamp,
                             [ ModerationLabels |->
                                 <<[dl_labels |-> dl_moderation,
                                    selfie_labels |-> selfie_moderation]>>,
                               ModerationStatus |-> "Moderation Labels Detected" ])
                       /\ done(Result(~concerning_labels(dl_moderation, selfie_moderation),
                                      TRUE), <<dl_raw, selfie_raw>>)
  /\ UNCHANGED bucket /\ UNCHANGED RunFrame

\* ModerateImages in two steps, for runs that share the record store with
\* other requests.  First lines 111-126 and update_dynamodb_record up to line
\* 74: the service calls and the query that resolves the record's sort key.
ModerateImagesBegin(r, dl_raw, selfie_raw, outcome) ==
  /\ runs[r].st = "ModerateImages"
  /\ LET vid == runs[r].input.verification_id
         items == Query(table, vid)
         done(res, reported) == runs' = [runs EXCEPT ![r] =
                         [@ EXCEPT !.st = "ModerationCheck",
                                   !.moderation_result = res,
                                   !.labels = reported,
                                   !.ran = @ \cup {"moderate"}]]
     IN  CASE outcome = "invoke_failed" -> TaskFailed(r, "moderate")
           [] outcome = "service_error" -> done(Result(FALSE, FALSE), <<>>)
           [] OTHER ->
                IF items = <<>>
                  THEN done(Result(FALSE, FALSE), <<dl_raw, selfie_raw>>)
                  ELSE runs' = [runs EXCEPT ![r] =
                         [@ EXCEPT !.st = "ModerateImagesUpdate",
                                   !.labels = <<dl_raw, selfie_raw>>,
                                   !.timestamp = items[1].Timestamp,
                                   !.ran = @ \cup {"moderate"}]]
  /\ UNCHANGED <<table, bucket>> /\ UNCHANGED RunFrame

\* then update_item with the resolved key (lines 89-96) and the response
\* (lines 141-152)
ModerateImagesFinish(r) ==
  /\ runs[r].st = "ModerateImagesUpdate"
  /\ LET vid == runs[r].input.verification_id
         dl_moderation == moderate_image(runs[r].labels[1])
         selfie_moderation == moderate_image(runs[r].labels[2])
     IN  /\ table' = UpdateItem(table, vid, runs[r].timestamp,
                       [ ModerationLabels |->
                           <<[dl_labels |-> dl_moderation,
                              selfie_labels |-> selfie_moderation]>>,
                         ModerationStatus |-> "Moderation Labels Detected" ])
         /\ runs' = [runs EXCEPT ![r] =
              [@ EXCEPT !.st = "ModerationCheck",
                        !.moderation_result =
                          Result(~concerning_labels(dl_moderation, selfie_moderation), TRUE)]]
  /\ UNCHANGED bucket /\ UNCHANGED RunFrame

\* a ModerationCheck that takes the success branch whatever moderation reported
ModerationCheckIgnored(r) ==
  /\ runs[r].st = "ModerationCheck"
  /\ runs' = [runs EXCEPT ![r] = [@ EXCEPT !.st = "CompareFaces"]]
  /\ UNCHANGED <<table, bucket>> /\ UNCHANGED RunFrame

\* ModerationCheck (Choice on $.moderation_result.Payload.success)
ModerationCheck(r) ==
  /\ runs[r].st = "ModerationCheck"
  /\ runs' = [runs EXCEPT ![r] =
       [@ EXCEPT !.st = IF runs[r].moderation_result.success
                          THEN "CompareFaces" ELSE "SendFailureEmail"]]
  /\ UNCHANGED <<table, bucket>> /\ UNCHANGED RunFrame

\* --------------------------------------------------------------- comparison
\* the similarity the face-similarity service finds between the two images,
\* in thousandths; 0 stands for "no face in common"
Similarities == {0, 62000, 80000, 95000}

\* rekognition.compare_faces(SimilarityThreshold=80.0): FaceMatches holds only
\* matches whose similarity reaches the threshold
FaceMatches(sim) == IF sim >= SimilarityThreshold THEN <<sim>> ELSE <<>>

\* id_compare_faces_lambda.compare_faces, lines 105-125
compare_faces(sim) ==
  IF FaceMatches(sim) # <<>>
    THEN [Matched |-> TRUE, Similarity |-> quantize2(FaceMatches(sim)[1])]
    ELSE [Matched |-> FALSE, Similarity |-> 0]

\* a success test that wants the similarity strictly above the minimum
comparison_successStrict(comparison_results) ==
  comparison_results.Matched /\ comparison_results.Similarity > MinSimilarityThreshold

\* lambda_handler, lines 152-154
comparison_success(comparison_results) ==
  comparison_results.Matched /\ comparison_results.Similarity >= MinSimilarityThreshold

\* an update_status that writes under a sort key of its own when the query
\* finds no item
update_statusUpsert(tbl, vid, status, results) ==
  LET items == Query(tbl, vid)
      changes == IF results = <<>> THEN [Status |-> status]
                 ELSE [Status |-> status, FaceMatchResults |-> results]
      ts == IF items = <<>> THEN NOW ELSE items[1].Timestamp
  IN  [table |-> UpdateItem(tbl, vid, ts, changes), raised |-> FALSE]

\* id_compare_faces_lambda.update_status: the table after the call, and
\* whether it raised "Record not found"
update_status(tbl, vid, status, results) ==
  LET items == Query(tbl, vid)
      changes == IF results = <<>> THEN [Status |-> status]
                 ELSE [Status |-> status, FaceMatchResults |-> results]
  IN  IF items = <<>> THEN [table |-> tbl, raised |-> TRUE]
      ELSE [table |-> UpdateItem(tbl, vid, items[1].Timestamp, changes),
            raised |-> FALSE]

\* CompareFaces (LambdaInvoke of id_compare_faces_lambda.lambda_handler),
\* up to the first update_status, line 146
CompareFacesBegin(r) ==
  /\ runs[r].st = "CompareFaces"
  /\ LET vid == runs[r].input.verification_id
         u == update_status(table, vid, "COMPARING_FACES", <<>>)
     IN  /\ table' = u.table
         /\ runs' = [runs EXCEPT ![r] =
              IF u.raised
                THEN \* except branch; its own update_status raises again
                     [@ EXCEPT !.st = "ComparisonCheck",
                               !.comparison_result = Result(FALSE, FALSE),
                               !.ran = @ \cup {"compare"}]
                ELSE [@ EXCEPT !.st = "CompareFacesCall", !.ran = @ \cup {"compare"}]]
  /\ UNCHANGED bucket /\ UNCHANGED RunFrame

\* CompareFaces, lines 148-201: the service call, the final update_status and
\* the response, or the except branch
CompareFacesFinish(r, sim, outcome) ==
  /\ runs[r].st = "CompareFacesCall"
  /\ LET vid == runs[r].input.verification_id
         comparison_results == compare_faces(sim)
         success == comparison_success(comparison_results)
         final_status == IF success THEN "FACE_MATCH_SUCCESSFUL" ELSE "FACE_MATCH_FAILED"
         u == update_status(table, vid, final_status, <<comparison_results>>)
         failed == update_status(table, vid, "FACE_COMPARISON_FAILED", <<>>)
         done(res, face) == runs' = [runs EXCEPT ![r] =
                         [@ EXCEPT !.st = "ComparisonCheck",
                                   !.comparison_result = res, !.face = face]]
     IN  CASE outcome = "invoke_failed" ->
                /\ TaskFailed(r, "compare")
                /\ UNCHANGED table
           [] outcome = "service_error" \/ u.raised ->
                /\ table' = failed.table
                /\ done(Result(FALSE, FALSE), <<>>)
           [] OTHER ->
                /\ table' = u.table
                /\ done(Result(success, TRUE), <<comparison_results>>)
  /\ UNCHANGED bucket /\ UNCHANGED RunFrame

\* ComparisonCheck (Choice on $.comparison_result.Payload.success)
ComparisonCheck(r) ==
  /\ runs[r].st = "ComparisonCheck"
  /\ runs' = [runs EXCEPT ![r] =
       [@ EXCEPT !.st = IF runs[r].comparison_result.success
                          THEN "ResizeImages" ELSE "SendFailureEmail"]]
  /\ UNCHANGED <<table, bucket>> /\ UNCHANGED RunFrame

\* ------------------------------------------------------------------- resize
\* how far the image work of id_resize_lambda.lambda_handler (lines 207-219)
\* gets: fetch/validate/resize/upload of the document fails, or that of the
\* selfie fails after the resized document was stored, or both succeed
ResizeWork == {"dl_failed", "selfie_failed", "ok"}

\* id_resize_lambda.update_dynamodb_record, lines 81-99: the SET clause
ResizedChanges(resized_paths) ==
  [ ResizedDLImageS3Key |-> resized_paths.dl,
    ResizedSelfieImageS3Key |-> resized_paths.selfie,
    StateMachineStatus |-> "COMPLETED_SUCCESSFUL",
    Status |-> "VERIFIED" ]

\* id_resize_lambda.update_failed_status, lines 145-156: the SET clause
FailedChanges(error_message) ==
  [ StateMachineStatus |-> "COMPLETED_FAILED",
    ErrorMessage |-> error_message,
    Status |-> "FAILED" ]

\* update_failed_status, lines 117-162: it swallows its own exceptions
update_failed_status(tbl, vid, error_message, accepted) ==
  LET items == Query(tbl, vid)
  IN  IF items = <<>> \/ ~accepted THEN tbl
      ELSE UpdateItem(tbl, vid, items[1].Timestamp, FailedChanges(error_message))

\* ResizeImages (LambdaInvoke of id_resize_lambda.lambda_handler).  work is
\* the outcome of the image work when both originals can be fetched;
\* accepted1 / accepted2 tell whether the record store accepts the
\* update_item of update_dynamodb_record / update_failed_status.
ResizeImages(r, work, accepted1, accepted2, invoke_failed) ==
  /\ runs[r].st = "ResizeImages"
  /\ LET vid == runs[r].input.verification_id
         dl_key == get_s3_key_from_uri(runs[r].input.doc)
         selfie_key == get_s3_key_from_uri(runs[r].input.selfie_key)
         resized_paths == [dl |-> S3Uri(ResizedKey(dl_key)),
                           selfie |-> S3Uri(ResizedKey(selfie_key))]
         \* fetch_image raises NoSuchKey for an object that is not stored
         dl_ok == dl_key \in bucket /\ work # "dl_failed"
         selfie_ok == dl_ok /\ selfie_key \in bucket /\ work = "ok"
         stored == (IF dl_ok THEN {ResizedKey(dl_key)} ELSE {})
                     \cup (IF selfie_ok THEN {ResizedKey(selfie_key)} ELSE {})
         items == Query(table, vid)
         updated == selfie_ok /\ items # <<>> /\ accepted1
         message == IF ~dl_ok \/ ~selfie_ok THEN "image error"
                    ELSE IF items = <<>> THEN "No record found" ELSE "update error"
     IN  IF invoke_failed
           THEN /\ TaskFailed(r, "resize")
                /\ UNCHANGED <<table, bucket, events>>
           ELSE /\ bucket' = bucket \cup stored
                /\ events' = events \cup {k \in stored : Notifies(k)}
                /\ table' = IF updated
                              THEN UpdateItem(table, vid, items[1].Timestamp,
                                              ResizedChanges(resized_paths))
                              ELSE update_failed_status(table, vid, message, accepted2)
                /\ runs' = [runs EXCEPT ![r] =
                     [@ EXCEPT !.st = "ResizeCheck",
                               !.resize_result = Result(updated, updated),
                               !.ran = @ \cup {"resize"}]]
  /\ UNCHANGED <<del, ana, upd, ing, trig, nDeliv, nExec, nUpd, direct>>

\* a ResizeCheck with its two branches exchanged
ResizeCheckInverted(r) ==
  /\ runs[r].st = "ResizeCheck"
  /\ runs' = [runs EXCEPT ![r] =
       [@ EXCEPT !.st = IF runs[r].resize_result.success
                          THEN "SendFailureEmail" ELSE "SendSuccessEmail"]]
  /\ UNCHANGED <<table, bucket>> /\ UNCHANGED RunFrame

\* ResizeCheck (Choice on $.resize_result.Payload.success)
ResizeCheck(r) ==
  /\ runs[r].st = "ResizeCheck"
  /\ runs' = [runs EXCEPT ![r] =
       [@ EXCEPT !.st = IF runs[r].resize_result.success
                          THEN "SendSuccessEmail" ELSE "SendFailureEmail"]]
  /\ UNCHANGED <<table, bucket>> /\ UNCHANGED RunFrame

\* ------------------------------------------------------------ notification
\* id_send_email_lambda.lambda_handler: the mail is sent when an address is
\* given and the mail service accepts it; the handler catches every failure
send_email(kind, user_email, ses_ok) ==
  [kind |-> kind, sent |-> user_email # Absent /\ ses_ok]

\* ses_client.send_email: the mails handed to the mail service for a run, in
\* the order sent
Outbox(run, mail) == IF mail.sent THEN Append(run.outbox, mail.kind) ELSE run.outbox

\* SendSuccessEmail (LambdaInvoke, then SucceedState).  The payload reads
\* comparison_results, moderation_results and resized_paths from the three
\* results; a missing path fails the execution with States.Runtime.
SendSuccessEmail(r, ses_ok, invoke_failed) ==
  /\ runs[r].st = "SendSuccessEmail"
  /\ LET run == runs[r]
         paths_ok == /\ run.comparison_result.full
                     /\ run.moderation_result.full
                     /\ run.resize_result.full
     IN  runs' = [runs EXCEPT ![r] =
           IF ~paths_ok
             THEN [@ EXCEPT !.st = "Aborted", !.error = "States.Runtime"]
           ELSE IF invoke_failed
             THEN [@ EXCEPT !.st = "Aborted", !.error = "States.TaskFailed",
                            !.failed = "notify"]
             ELSE [@ EXCEPT !.st = "SucceedState",
                            !.mail = send_email("success", run.input.user_email, ses_ok),
                            !.outbox = Outbox(run, send_email("success",
                                                run.input.user_email, ses_ok))]]
  /\ UNCHANGED <<table, bucket>> /\ UNCHANGED RunFrame

\* SendFailureEmail (LambdaInvoke, then FailState).  The payload reads
\* $.comparison_result.Payload.details.status, ...details.comparison_results
\* and $.moderation_result.Payload.moderation_results.
SendFailureEmail(r, ses_ok, invoke_failed) ==
  /\ runs[r].st = "SendFailureEmail"
  /\ LET run == runs[r]
         paths_ok == /\ run.comparison_result.full
                     /\ run.moderation_result.full
     IN  runs' = [runs EXCEPT ![r] =
           IF ~paths_ok
             THEN [@ EXCEPT !.st = "Aborted", !.error = "States.Runtime"]
           ELSE IF invoke_failed
             THEN [@ EXCEPT !.st = "Aborted", !.error = "States.TaskFailed",
                            !.failed = "notify"]
             ELSE [@ EXCEPT !.st = "FailState",
                            !.mail = send_email("failure", run.input.user_email, ses_ok),
                            !.outbox = Outbox(run, send_email("failure",
                                                run.input.user_email, ses_ok))]]
  /\ UNCHANGED <<table, bucket>> /\ UNCHANGED RunFrame

\* SendFailureEmail keeps the default retry_on_service_exceptions (SendSuccess-
\* Email sets it to False, line 364): the handler ran to its end, the
\* invocation's response was lost to a Lambda service exception, and the
\* task's Retry invokes the handler again with the same payload
SendFailureEmailRetried(r, ses_ok) ==
  /\ runs[r].st = "SendFailureEmail"
  /\ runs[r].comparison_result.full /\ runs[r].moderation_result.full
  /\ runs[r].attempts < MaxRetries
  /\ LET run == runs[r]
         mail == send_email("failure", run.input.user_email, ses_ok)
     IN  runs' = [runs EXCEPT ![r] =
           [@ EXCEPT !.attempts = @ + 1, !.mail = mail, !.outbox = Outbox(run, mail)]]
  /\ UNCHANGED <<table, bucket>> /\ UNCHANGED RunFrame

\* -------------------------------------------------------------- task retry
\* the LambdaInvoke tasks that keep the default retry_on_service_exceptions:
\* the state a run is in once such a task's handler has run, and the task
RetriedTasks ==
  [ ModerationCheck |-> "ModerateImages",
    ComparisonCheck |-> "CompareFaces",
    ResizeCheck |-> "ResizeImages" ]

\* The handler ran to its end, the invocation's response was lost to a Lambda
\* service exception, and the task's Retry invokes the handler again with the
\* same input.
LambdaRetry(r) ==
  /\ runs[r].st \in DOMAIN RetriedTasks
  /\ runs[r].attempts < MaxRetries
  /\ runs' = [runs EXCEPT ![r] =
       [@ EXCEPT !.st = RetriedTasks[runs[r].st], !.attempts = @ + 1,
                 !.moderation_result =
                    IF runs[r].st = "ModerationCheck" THEN NoResult ELSE @,
                 !.comparison_result =
                    IF runs[r].st = "ComparisonCheck" THEN NoResult ELSE @,
                 !.resize_result =
                    IF runs[r].st = "ResizeCheck" THEN NoResult ELSE @]]
  /\ UNCHANGED <<table, bucket>> /\ UNCHANGED RunFrame

\* ------------------------------------------------------------- run timeout
\* StateMachine(timeout=Duration.minutes(5)): an execution still running at
\* the bound is ended by the service with States.Timeout, wherever it is; no
\* state of the definition runs after that, and nothing writes to the record
RunTimeout(r) ==
  /\ runs[r].st \notin {"none", "SucceedState", "FailState", "Aborted", "TimedOut"}
  /\ runs' = [runs EXCEPT ![r] = [@ EXCEPT !.st = "TimedOut", !.error = "States.Timeout"]]
  /\ UNCHANGED <<table, bucket>> /\ UNCHANGED RunFrame

\* ----------------------------------------------------------------- compress
\* object_key.startswith("resized_"), id_compress_lambda line 22
IsResized(key) ==
  key.dir \in {"resized_" \o dir : dir \in {"identity", "selfie", "dl",
                                           "resized_identity", "resized_selfie"}}

\* id_compress_lambda.lambda_handler, invoked with an S3 event naming a stored
\* object (no notification of the stack is wired to it): an object that is
\* already a resized output is skipped, any other is stored again, resized,
\* under resized_<key>
CompressObject(key) ==
  /\ key \in bucket
  /\ IF IsResized(key)
       THEN UNCHANGED <<bucket, events>>
       ELSE PutObject(ResizedKey(key))
  /\ direct' = TRUE
  /\ UNCHANGED <<del, ana, upd, table, ing, trig, nDeliv, runs, nExec, nUpd>>

\* ----------------------------------------------------------------- deletion
\* the query string of a deletion request: API Gateway passes null when the
\* request has none; otherwise it carries verificationId or it does not
DeleteParams == {"null", "missing", "given"}

\* table.query(VerificationId = vid)['Items'] of id_delete_lambda, lines 33-40:
\* no Limit and ascending sort-key order, so items[0] is the oldest item
QueryAscending(tbl, vid) ==
  LET its == {i \in tbl : i.VerificationId = vid}
  IN  IF its = {} THEN <<>>
      ELSE <<CHOOSE i \in its : \A j \in its : i.Timestamp <= j.Timestamp>>

\* table.delete_item(Key=(vid, ts))
DeleteItem(tbl, vid, ts) ==
  {i \in tbl : ~(i.VerificationId = vid /\ i.Timestamp = ts)}

\* code 0 with raised: the invocation ended with an exception, no response
DelIdle == [pc |-> "idle", params |-> "none", timestamp |-> 0, code |-> 0,
            raised |-> FALSE]

\* a handler that answers a request for an unknown id like a deletion
DeleteQueryAlways200(params) ==
  /\ del.pc = "idle"
  /\ LET items == QueryAscending(table, VID)
         req == [del EXCEPT !.params = params]
     IN  del' = IF params = "null"
                  THEN [req EXCEPT !.pc = "done", !.raised = TRUE]
                ELSE IF params = "missing"
                  THEN [req EXCEPT !.pc = "done", !.code = 400]
                ELSE IF items = <<>>
                  THEN [req EXCEPT !.pc = "done", !.code = 200]
                ELSE [req EXCEPT !.pc = "delete", !.timestamp = items[1].Timestamp]
  /\ UNCHANGED <<table, bucket, events, ing, trig, nDeliv, runs, nExec, nUpd, direct, ana, upd>>

\* id_delete_lambda.lambda_handler, lines 19-51.  event.get(
\* 'queryStringParameters', {}) is None for a request without a query string,
\* so .get raises AttributeError; the first except clause names ClientError,
\* which the module never imports, so matching any exception against it
\* raises NameError and the invocation ends with that exception.
DeleteQuery(params) ==
  /\ del.pc = "idle"
  /\ LET items == QueryAscending(table, VID)
         req == [del EXCEPT !.params = params]
     IN  del' = IF params = "null"
                  THEN [req EXCEPT !.pc = "done", !.raised = TRUE]
                ELSE IF params = "missing"
                  THEN [req EXCEPT !.pc = "done", !.code = 400]
                ELSE IF items = <<>>
                  THEN [req EXCEPT !.pc = "done", !.code = 404]
                ELSE [req EXCEPT !.pc = "delete", !.timestamp = items[1].Timestamp]
  /\ UNCHANGED <<table, bucket, events, ing, trig, nDeliv, runs, nExec, nUpd, direct, ana, upd>>

\* lines 53-79: delete_item and the response; accepted tells whether the
\* record store accepts the call.  The handler makes no object-store call.
DeleteRecord(accepted) ==
  /\ del.pc = "delete"
  /\ IF accepted
       THEN /\ table' = DeleteItem(table, VID, del.timestamp)
            /\ del' = [del EXCEPT !.pc = "done", !.code = 200]
       ELSE /\ UNCHANGED table
            /\ del' = [del EXCEPT !.pc = "done", !.raised = TRUE]
  /\ UNCHANGED <<bucket, events, ing, trig, nDeliv, runs, nExec, nUpd, direct, ana, upd>>

\* ------------------------------------------------------------ status update
\* the values an invocation of the status-update handler can carry
StatusValues == {"PROCESSING", "COMPLETED_FAILED"}

\* id_sm_update_status_lambda.lambda_handler: SET StateMachineStatus = status;
\* with no record the exception is raised again by the except branch (lines
\* 63-65), so it leaves the handler, and nothing is written
UpdateStatus(vid, status) ==
  /\ nUpd < MaxStatusUpdates
  /\ nUpd' = nUpd + 1
  /\ LET items == Query(table, vid)
     IN  /\ table' = IF items = <<>> THEN table
                      ELSE UpdateItem(table, vid, items[1].Timestamp,
                                      [StateMachineStatus |-> status])
         /\ upd' = IF items = <<>> THEN "raised" ELSE "returned"
  /\ direct' = TRUE
  /\ UNCHANGED <<del, ana, bucket, events, ing, trig, nDeliv, runs, nExec>>

\* --------------------------------------------------------------- extraction
\* id_analyze_lambda.lambda_handler, line 178
RequiredFields == {"first_name", "last_name", "date_of_birth", "expiration_date"}

\* of analyze_id_document's fields_to_extract (lines 60-65), the two other
\* fields the handler reads by name; the remaining six are only stored, like
\* these two
OtherFields == {"document_number", "id_type"}

FieldsToExtract == RequiredFields \cup OtherFields

\* what the extraction service reports for one field type: not listed, listed
\* with an empty value, or listed with a value; confidences in thousandths
NotListed == [listed |-> FALSE, text |-> "", conf |-> 0]
Readings ==
  { NotListed,
    [listed |-> TRUE, text |-> "", conf |-> 95000],
    [listed |-> TRUE, text |-> "x", conf |-> 89994],
    [listed |-> TRUE, text |-> "x", conf |-> 89995],
    [listed |-> TRUE, text |-> "x", conf |-> 95000] }
OtherReadings == { NotListed, [listed |-> TRUE, text |-> "x", conf |-> 95000] }

\* the IdentityDocumentFields the service can return
IdFields ==
  { [f \in FieldsToExtract |-> IF f \in RequiredFields THEN req[f] ELSE oth[f]] :
      req \in [RequiredFields -> Readings], oth \in [OtherFields -> OtherReadings] }

\* id_analyze_lambda.extract_field_value: text and quantized confidence of the
\* field of that type, or ('', 0)
extract_field_value(fields, field_type) ==
  IF fields[field_type].listed
    THEN [text |-> fields[field_type].text, confidence |-> quantize2(fields[field_type].conf)]
    ELSE [text |-> "", confidence |-> 0]

\* analyze_id_document, lines 67-73: extracted_fields
extracted_fields(id_fields) ==
  [f \in FieldsToExtract |-> extract_field_value(id_fields, f)]

\* a validity test that wants the confidence strictly above the threshold
valid_idStrict(fields) ==
  \A f \in RequiredFields : fields[f].text # "" /\ fields[f].confidence > ConfidenceThreshold

\* lambda_handler, lines 181-193: validation_results and valid_id
valid_id(fields) ==
  \A f \in RequiredFields : fields[f].text # "" /\ fields[f].confidence >= ConfidenceThreshold

\* id_analyze_lambda.update_dynamodb_record, lines 110-126: the SET clause
AnalysisChanges(fields) ==
  [ IDAnalysisResults |-> <<fields>>,
    IDAnalysisStatus |-> "COMPLETED",
    DocumentType |-> fields["id_type"].text,
    DocumentNumber |-> fields["document_number"].text ]

AnaIdle == [pc |-> "idle", documents |-> <<>>, statusCode |-> 0,
            success |-> FALSE, error |-> FALSE]

\* what happens to the service call: it raises, it finds no identity document,
\* or it returns the document's fields
AnalyzeOutcomes == {"service_error", "no_document", "returned"}

\* id_analyze_lambda.lambda_handler, invoked with the orchestrator payload of
\* the submission; has_id_key tells whether the event carries 'id_key'
AnalyzeId(has_id_key, id_fields, outcome) ==
  /\ ana.pc = "idle"
  /\ LET vid == VID
         items == Query(table, vid)
         fields == extracted_fields(id_fields)
         respond(docs, code, success) ==
           ana' = [pc |-> "done", documents |-> docs, statusCode |-> code,
                   success |-> success, error |-> ~success]
     IN  IF ~has_id_key \/ outcome = "service_error"
           THEN \* KeyError on event['id_key'], or analyze_id raises
                /\ respond(<<>>, 500, FALSE)
                /\ UNCHANGED table
         ELSE IF outcome = "no_document"
           THEN /\ respond(<<>>, 400, FALSE)
                /\ UNCHANGED table
         ELSE IF items = <<>>
           THEN \* update_dynamodb_record raises "No record found"
                /\ respond(<<id_fields>>, 500, FALSE)
                /\ UNCHANGED table
         ELSE /\ table' = UpdateItem(table, vid, items[1].Timestamp, AnalysisChanges(fields))
              /\ respond(<<id_fields>>, 200, valid_id(fields))
  /\ UNCHANGED <<del, bucket, events, ing, trig, nDeliv, runs, nExec, nUpd, direct, upd>>

\* the handler is invoked on the stores as ingress leaves them: the record of
\* the submission written, or not
InitAnalyze ==
  /\ table \in { {}, {InitialItem(Email)} }
  /\ bucket = {IdKey, SelfieKey}
  /\ events = {}
  /\ ing = IngIdle
  /\ trig = [i \in 1..MaxTrig |-> TrigIdle]
  /\ nDeliv = 0
  /\ runs = [r \in 1..MaxExec |-> RunNone]
  /\ nExec = 0
  /\ nUpd = 0
  /\ direct = TRUE
  /\ ana = AnaIdle
  /\ upd = "none"
  /\ del = DelIdle

NextAnalyze ==
  \E has_id_key \in BOOLEAN, id_fields \in IdFields, outcome \in AnalyzeOutcomes :
    AnalyzeId(has_id_key, id_fields, outcome)

SpecAnalyze == InitAnalyze /\ [][NextAnalyze]_vars

\* ------------------------------------------------------------ specification
Init ==
  /\ table = {}
  /\ bucket = {}
  /\ events = {}
  /\ ing = IngIdle
  /\ trig = [i \in 1..MaxTrig |-> TrigIdle]
  /\ nDeliv = 0
  /\ runs = [r \in 1..MaxExec |-> RunNone]
  /\ nExec = 0
  /\ nUpd = 0
  /\ direct = FALSE
  /\ ana = AnaIdle
  /\ upd = "none"
  /\ del = DelIdle

TaskOutcomes == {"returned", "service_error", "invoke_failed"}

Next ==
  \/ \E identity \in PlainInputs, selfie \in PlainInputs :
       IngressValidate(identity, selfie, Email)
  \/ \E ok \in BOOLEAN : IngressPutIdentity(ok)
  \/ \E ok \in BOOLEAN : IngressPutSelfie(ok)
  \/ \E ok \in BOOLEAN : IngressPutItem(ok)
  \/ \E key \in NotifiedKeys, redeliver \in BOOLEAN : TriggerReceive(key, redeliver)
  \/ \E key \in OriginalKeys : InvokeTriggerDirect(key)
  \/ \E i \in 1..MaxTrig : TriggerQuery(i)
  \/ \E i \in 1..MaxTrig : TriggerUpdate(i)
  \/ \E i \in 1..MaxTrig : TriggerDecide(i)
  \/ \E i \in 1..MaxTrig : TriggerStart(i)
  \/ \E body \in EntryBodies : EntryStart(body)
  \/ \E r \in 1..MaxExec : InitialState(r)
  \/ \E r \in 1..MaxExec : ProcessVerification(r)
  \/ \E r \in 1..MaxExec, lp \in LabelPairs, o \in TaskOutcomes :
       ModerateImages(r, lp[1], lp[2], o)
  \/ \E r \in 1..MaxExec : ModerationCheck(r)
  \/ \E r \in 1..MaxExec : CompareFacesBegin(r)
  \/ \E r \in 1..MaxExec, sim \in Similarities, o \in TaskOutcomes :
       CompareFacesFinish(r, sim, o)
  \/ \E r \in 1..MaxExec : ComparisonCheck(r)
  \/ \E r \in 1..MaxExec, w \in ResizeWork, a1 \in BOOLEAN, a2 \in BOOLEAN, f \in BOOLEAN :
       ResizeImages(r, w, a1, a2, f)
  \/ \E r \in 1..MaxExec : ResizeCheck(r)
  \/ \E r \in 1..MaxExec, ok \in BOOLEAN, f \in BOOLEAN : SendSuccessEmail(r, ok, f)
  \/ \E r \in 1..MaxExec, ok \in BOOLEAN, f \in BOOLEAN : SendFailureEmail(r, ok, f)
  \/ \E status \in StatusValues : UpdateStatus(VID, status)

Spec == Init /\ [][Next]_vars

\* the addresses ingress can find in the authorizer claims (lines 28-39)
UserEmails == {Email, Absent}

\* the submission path alone: ingress with every kind of image field, the
\* bucket notifications and the trigger
NextSubmit ==
  \/ \E identity \in ImageInputs, selfie \in ImageInputs, email \in UserEmails :
       IngressValidate(identity, selfie, email)
  \/ \E ok \in BOOLEAN : IngressPutIdentity(ok)
  \/ \E ok \in BOOLEAN : IngressPutSelfie(ok)
  \/ \E ok \in BOOLEAN : IngressPutItem(ok)
  \/ \E key \in NotifiedKeys, redeliver \in BOOLEAN : TriggerReceive(key, redeliver)
  \/ \E key \in OriginalKeys : InvokeTriggerDirect(key)
  \/ \E i \in 1..MaxTrig : TriggerQuery(i)
  \/ \E i \in 1..MaxTrig : TriggerUpdate(i)
  \/ \E i \in 1..MaxTrig : TriggerDecide(i)
  \/ \E i \in 1..MaxTrig : TriggerStart(i)

SpecSubmit == Init /\ [][NextSubmit]_vars

\* the submission path with repeated deliveries
NextDeliver ==
  \/ \E identity \in PlainInputs, selfie \in PlainInputs :
       IngressValidate(identity, selfie, Email)
  \/ \E ok \in BOOLEAN : IngressPutIdentity(ok)
  \/ \E ok \in BOOLEAN : IngressPutSelfie(ok)
  \/ \E ok \in BOOLEAN : IngressPutItem(ok)
  \/ \E key \in NotifiedKeys, redeliver \in BOOLEAN : TriggerReceive(key, redeliver)
  \/ \E key \in OriginalKeys : InvokeTriggerDirect(key)
  \/ \E key \in OriginalKeys : TriggerRedeliver(key)
  \/ \E i \in 1..MaxTrig : TriggerQuery(i)
  \/ \E i \in 1..MaxTrig : TriggerUpdate(i)
  \/ \E i \in 1..MaxTrig : TriggerDecide(i)
  \/ \E i \in 1..MaxTrig : TriggerStart(i)

SpecDeliver == Init /\ [][NextDeliver]_vars

\* a submission, its trigger, one directly started run up to moderation, and
\* a deletion request, all sharing the stores
NextDelete ==
  \/ \E identity \in PlainInputs, selfie \in PlainInputs :
       IngressValidate(identity, selfie, Email)
  \/ \E ok \in BOOLEAN : IngressPutIdentity(ok)
  \/ \E ok \in BOOLEAN : IngressPutSelfie(ok)
  \/ \E ok \in BOOLEAN : IngressPutItem(ok)
  \/ \E key \in NotifiedKeys, redeliver \in BOOLEAN : TriggerReceive(key, redeliver)
  \/ \E key \in OriginalKeys : InvokeTriggerDirect(key)
  \/ \E i \in 1..MaxTrig : TriggerQuery(i)
  \/ \E i \in 1..MaxTrig : TriggerUpdate(i)
  \/ \E i \in 1..MaxTrig : TriggerDecide(i)
  \/ \E i \in 1..MaxTrig : TriggerStart(i)
  \/ \E body \in EntryBodies : EntryStart(body)
  \/ \E r \in 1..MaxExec : InitialState(r)
  \/ \E r \in 1..MaxExec : ProcessVerification(r)
  \/ \E r \in 1..MaxExec, lp \in LabelPairs, o \in TaskOutcomes :
       ModerateImagesBegin(r, lp[1], lp[2], o)
  \/ \E r \in 1..MaxExec : ModerateImagesFinish(r)
  \/ \E params \in DeleteParams : DeleteQuery(params)
  \/ \E accepted \in BOOLEAN : DeleteRecord(accepted)

SpecDelete == Init /\ [][NextDelete]_vars

\* one directly started run on a stored submission, with task retries
NextRetry ==
  \/ \E identity \in PlainInputs, selfie \in PlainInputs :
       IngressValidate(identity, selfie, Email)
  \/ \E ok \in BOOLEAN : IngressPutIdentity(ok)
  \/ \E ok \in BOOLEAN : IngressPutSelfie(ok)
  \/ \E ok \in BOOLEAN : IngressPutItem(ok)
  \/ \E body \in EntryBodies : EntryStart(body)
  \/ \E r \in 1..MaxExec : InitialState(r)
  \/ \E r \in 1..MaxExec : ProcessVerification(r)
  \/ \E r \in 1..MaxExec, lp \in LabelPairs, o \in TaskOutcomes :
       ModerateImages(r, lp[1], lp[2], o)
  \/ \E r \in 1..MaxExec : ModerationCheck(r)
  \/ \E r \in 1..MaxExec : CompareFacesBegin(r)
  \/ \E r \in 1..MaxExec, sim \in Similarities, o \in TaskOutcomes :
       CompareFacesFinish(r, sim, o)
  \/ \E r \in 1..MaxExec : ComparisonCheck(r)
  \/ \E r \in 1..MaxExec, w \in ResizeWork, a1 \in BOOLEAN, a2 \in BOOLEAN, f \in BOOLEAN :
       ResizeImages(r, w, a1, a2, f)
  \/ \E r \in 1..MaxExec : ResizeCheck(r)
  \/ \E r \in 1..MaxExec, ok \in BOOLEAN, f \in BOOLEAN : SendSuccessEmail(r, ok, f)
  \/ \E r \in 1..MaxExec, ok \in BOOLEAN, f \in BOOLEAN : SendFailureEmail(r, ok, f)
  \/ \E r \in 1..MaxExec : LambdaRetry(r)
  \/ \E r \in 1..MaxExec, ok \in BOOLEAN : SendFailureEmailRetried(r, ok)

SpecRetry == Init /\ [][NextRetry]_vars

\* valid submissions at every reading of the ingress clock
NextClock ==
  \E email \in UserEmails, current_time \in ClockReadings :
    HandleApiRequest(email, current_time)

SpecClock == Init /\ [][NextClock]_vars

\* one directly started run on a stored submission, under the run's time bound
NextTimeout ==
  \/ \E identity \in PlainInputs, selfie \in PlainInputs :
       IngressValidate(identity, selfie, Email)
  \/ \E ok \in BOOLEAN : IngressPutIdentity(ok)
  \/ \E ok \in BOOLEAN : IngressPutSelfie(ok)
  \/ \E ok \in BOOLEAN : IngressPutItem(ok)
  \/ \E body \in EntryBodies : EntryStart(body)
  \/ \E r \in 1..MaxExec : InitialState(r)
  \/ \E r \in 1..MaxExec : ProcessVerification(r)
  \/ \E r \in 1..MaxExec, lp \in LabelPairs, o \in TaskOutcomes :
       ModerateImages(r, lp[1], lp[2], o)
  \/ \E r \in 1..MaxExec : ModerationCheck(r)
  \/ \E r \in 1..MaxExec : CompareFacesBegin(r)
  \/ \E r \in 1..MaxExec, sim \in Similarities, o \in TaskOutcomes :
       CompareFacesFinish(r, sim, o)
  \/ \E r \in 1..MaxExec : ComparisonCheck(r)
  \/ \E r \in 1..MaxExec, w \in ResizeWork, a1 \in BOOLEAN, a2 \in BOOLEAN, f \in BOOLEAN :
       ResizeImages(r, w, a1, a2, f)
  \/ \E r \in 1..MaxExec : ResizeCheck(r)
  \/ \E r \in 1..MaxExec, ok \in BOOLEAN, f \in BOOLEAN : SendSuccessEmail(r, ok, f)
  \/ \E r \in 1..MaxExec, ok \in BOOLEAN, f \in BOOLEAN : SendFailureEmail(r, ok, f)
  \/ \E r \in 1..MaxExec : RunTimeout(r)

SpecTimeout == Init /\ [][NextTimeout]_vars

\* the handlers on the stores of a submission whose record may be missing
\* (ingress's put_item failed, or the record was deleted): the trigger, the
\* record-writing steps of one directly started run, the status update and
\* the deletion request
NextOrphan ==
  \/ \E key \in OriginalKeys : InvokeTriggerDirect(key)
  \/ \E i \in 1..MaxTrig : TriggerQuery(i)
  \/ \E i \in 1..MaxTrig : TriggerUpdate(i)
  \/ \E i \in 1..MaxTrig : TriggerDecide(i)
  \/ \E i \in 1..MaxTrig : TriggerStart(i)
  \/ \E body \in EntryBodies : EntryStart(body)
  \/ \E r \in 1..MaxExec : InitialState(r)
  \/ \E r \in 1..MaxExec : ProcessVerification(r)
  \/ \E r \in 1..MaxExec, lp \in LabelPairs, o \in TaskOutcomes :
       ModerateImages(r, lp[1], lp[2], o)
  \/ \E r \in 1..MaxExec : ModerationCheck(r)
  \/ \E r \in 1..MaxExec : CompareFacesBegin(r)
  \/ \E r \in 1..MaxExec, sim \in Similarities, o \in TaskOutcomes :
       CompareFacesFinish(r, sim, o)
  \/ \E r \in 1..MaxExec : ComparisonCheck(r)
  \/ \E r \in 1..MaxExec, w \in ResizeWork, a1 \in BOOLEAN, a2 \in BOOLEAN, f \in BOOLEAN :
       ResizeImages(r, w, a1, a2, f)
  \/ \E status \in StatusValues : UpdateStatus(VID, status)
  \/ \E params \in DeleteParams : DeleteQuery(params)
  \/ \E accepted \in BOOLEAN : DeleteRecord(accepted)

SpecOrphan == InitAnalyze /\ [][NextOrphan]_vars

\* the objects a submission leaves in the bucket and what they set off: the
\* ingress, the notifications and the trigger, one directly started run up to
\* its resize, and the compress handler on any stored object
StoredKeys ==
  OriginalKeys \cup {ResizedKey(key) : key \in OriginalKeys}

NextFeedback ==
  \/ \E identity \in PlainInputs, selfie \in PlainInputs :
       IngressValidate(identity, selfie, Email)
  \/ \E ok \in BOOLEAN : IngressPutIdentity(ok)
  \/ \E ok \in BOOLEAN : IngressPutSelfie(ok)
  \/ \E ok \in BOOLEAN : IngressPutItem(ok)
  \/ \E key \in StoredKeys, redeliver \in BOOLEAN : TriggerReceive(key, redeliver)
  \/ \E key \in OriginalKeys : InvokeTriggerDirect(key)
  \/ \E i \in 1..MaxTrig : TriggerQuery(i)
  \/ \E i \in 1..MaxTrig : TriggerUpdate(i)
  \/ \E i \in 1..MaxTrig : TriggerDecide(i)
  \/ \E i \in 1..MaxTrig : TriggerStart(i)
  \/ \E body \in EntryBodies : EntryStart(body)
  \/ \E r \in 1..MaxExec : InitialState(r)
  \/ \E r \in 1..MaxExec : ProcessVerification(r)
  \/ \E r \in 1..MaxExec, lp \in LabelPairs, o \in TaskOutcomes :
       ModerateImages(r, lp[1], lp[2], o)
  \/ \E r \in 1..MaxExec : ModerationCheck(r)
  \/ \E r \in 1..MaxExec : CompareFacesBegin(r)
  \/ \E r \in 1..MaxExec, sim \in Similarities, o \in TaskOutcomes :
       CompareFacesFinish(r, sim, o)
  \/ \E r \in 1..MaxExec : ComparisonCheck(r)
  \/ \E r \in 1..MaxExec, w \in ResizeWork, a1 \in BOOLEAN, a2 \in BOOLEAN, f \in BOOLEAN :
       ResizeImages(r, w, a1, a2, f)
  \/ \E key \in StoredKeys : CompressObject(key)

SpecFeedback == Init /\ [][NextFeedback]_vars

\* ================================================================== claims
Ended == {"SucceedState", "FailState", "Aborted"}
Completed == {"COMPLETED_SUCCESSFUL", "COMPLETED_FAILED"}
TerminalStatus == {"VERIFIED", "FAILED"}

Runs == 1..MaxExec
Deliveries == 1..MaxTrig

\* the executions started by the trigger
TriggerStarted == {r \in Runs : runs[r].by = "trigger"}

\* nothing of the deployed pipeline is in progress or pending
Quiescent ==
  /\ ing.pc = "done"
  /\ events = {}
  /\ \A i \in Deliveries : trig[i].pc \in {"idle", "done"}
  /\ \A r \in Runs : runs[r].st \in Ended \cup {"none"}

\* C1: every valid submission's record eventually reaches a terminal status.
\* As a final result: once ingress has answered 200 and the deployed pipeline
\* (bucket notifications, trigger, state machine) has nothing left to do, the
\* record holds a terminal status.
C1_TerminalWhenQuiescent ==
  (Quiescent /\ ing.code = 200 /\ ~direct)
    => \E item \in table : /\ item.VerificationId = VID
                           /\ item.StateMachineStatus \in Completed

\* C2: gate ordering within one run: after a moderation that reported
\* success=False neither comparison nor resize has run; after a comparison
\* that reported success=False neither has resize.
C2_GateOrdering ==
  \A r \in Runs :
    /\ (runs[r].moderation_result.present /\ ~runs[r].moderation_result.success)
         => runs[r].ran \cap {"compare", "resize"} = {}
    /\ (runs[r].comparison_result.present /\ ~runs[r].comparison_result.success)
         => "resize" \notin runs[r].ran

\* a run whose moderation passed and whose comparison reported a mismatch has
\* ended through the failure branch
C2_Witness ==
  \E r \in Runs :
    /\ runs[r].moderation_result.success
    /\ runs[r].comparison_result.present /\ runs[r].comparison_result.full
    /\ ~runs[r].comparison_result.success
    /\ runs[r].st = "FailState"

\* C3: two upload events of one verification, one per image, both recorded on
\* the record: the orchestrator has been started exactly once when both
\* invocations have returned.
C3_StartedExactlyOnce ==
  ( /\ nDeliv = 2
    /\ {trig[1].key, trig[2].key} = OriginalKeys
    /\ trig[1].pc = "done" /\ trig[2].pc = "done"
    /\ \E item \in table : /\ item.VerificationId = VID
                           /\ item.identityUploaded /\ item.selfieUploaded )
    => Cardinality(TriggerStarted) = 1

C5_ResultsFrozen ==
  [][ \A i \in table, j \in table' :
        ( /\ i.VerificationId = j.VerificationId /\ i.Timestamp = j.Timestamp
          /\ i.StateMachineStatus \in Completed )
          => /\ j.ModerationLabels = i.ModerationLabels
             /\ j.FaceMatchResults = i.FaceMatchResults ]_vars

\* C6: a run in which moderation reported success=False with its label lists
\* ends, unless a task invocation itself failed, in FailState after the
\* failure notification step.
C6_ModerationFailureNotified ==
  \A r \in Runs :
    ( /\ runs[r].st \in Ended
      /\ runs[r].error # "States.TaskFailed"
      /\ runs[r].moderation_result.full /\ ~runs[r].moderation_result.success )
      => runs[r].st = "FailState" /\ runs[r].mail.kind = "failure"

\* a gated step of the run raised inside its handler (its response carries
\* only an error), or its invocation failed
StepRaised(r) ==
  \/ runs[r].moderation_result.present /\ ~runs[r].moderation_result.full
  \/ runs[r].comparison_result.present /\ ~runs[r].comparison_result.full
  \/ runs[r].resize_result.present /\ ~runs[r].resize_result.full
  \/ runs[r].failed \in {"moderate", "compare", "resize"}

\* C7: a run in which a gated step raised or could not be invoked ends in
\* FailState after the failure notification step.
C7_ExceptionTakesFailureBranch ==
  \A r \in Runs :
    (runs[r].st \in Ended /\ StepRaised(r))
      => runs[r].st = "FailState" /\ runs[r].mail.kind = "failure"

\* the run's moderation found no label above 80, its comparison reported a
\* match at 95 %, its resize succeeded, and it has ended without the
\* notification task's invocation failing
SuccessScenario(r) ==
  /\ runs[r].labels # <<>>
  /\ \A k \in 1..2 : \A i \in 1..Len(runs[r].labels[k]) : runs[r].labels[k][i] <= 80000
  /\ runs[r].face = <<[Matched |-> TRUE, Similarity |-> 9500]>>
  /\ runs[r].resize_result.success
  /\ runs[r].st \in Ended
  /\ runs[r].failed # "notify"

C9_EndedRunRecorded ==
  \A r \in Runs :
    (nUpd = 0 /\ runs[r].st \in {"FailState", "SucceedState"})
      => \E item \in table :
           /\ item.VerificationId = runs[r].input.verification_id
           /\ IF runs[r].st = "FailState"
                THEN /\ item.StateMachineStatus = "COMPLETED_FAILED"
                     /\ item.ErrorMessage # Absent
                ELSE item.StateMachineStatus = "COMPLETED_SUCCESSFUL"

\* the step of run r that is its moderation task returning a response
ModerationStep(r) ==
  runs[r].st = "ModerateImages" /\ runs'[r].st = "ModerationCheck"

\* some reported label confidence (thousandths) is above t
ReportedAbove(reported, t) ==
  /\ reported # <<>>
  /\ \E k \in 1..2 : \E i \in 1..Len(reported[k]) : reported[k][i] > t

\* the item holds one label per reported label of both images, each within
\* half a hundredth of the reported confidence
LabelsPersisted(item, reported) ==
  /\ item.ModerationLabels # <<>>
  /\ reported # <<>>
  /\ LET stored == <<item.ModerationLabels[1].dl_labels,
                     item.ModerationLabels[1].selfie_labels>>
     IN  \A k \in 1..2 :
           /\ Len(stored[k]) = Len(reported[k])
           /\ \A i \in 1..Len(reported[k]) :
                /\ 10 * stored[k][i] - reported[k][i] <= 5
                /\ reported[k][i] - 10 * stored[k][i] <= 5

ComparisonStep(r) ==
  runs[r].st \in {"CompareFaces", "CompareFacesCall"} /\ runs'[r].st = "ComparisonCheck"

\* C11 as stated: the comparison step returns success=True exactly when the
\* service reported a match whose similarity exceeds 80 %, and success=False
\* in every other case.
C11_ComparisonExactlyWhenExceeds ==
  [][ \A r \in Runs : ComparisonStep(r) =>
        ( runs'[r].comparison_result.success
            <=> /\ runs'[r].face # <<>>
                /\ runs'[r].face[1].Matched
                /\ runs'[r].face[1].Similarity > 8000 ) ]_vars

\* C11 amended: the comparison step returns success=True exactly when the
\* service reported a match whose similarity, rounded to two decimals, is at
\* least 80 %, and success=False in every other case (no match, service
\* failure, record missing).
C11_ComparisonPolicy ==
  [][ \A r \in Runs : ComparisonStep(r) =>
        ( runs'[r].comparison_result.success
            <=> /\ runs'[r].face # <<>>
                /\ runs'[r].face[1].Matched
                /\ runs'[r].face[1].Similarity >= 8000 ) ]_vars

\* a comparison has reported success=True for a match at exactly 80.00 %
C11_Witness ==
  \E r \in Runs :
    /\ runs[r].comparison_result.success
    /\ runs[r].face = <<[Matched |-> TRUE, Similarity |-> 8000]>>

\* every required field is listed with a non-empty value and a reported
\* confidence (thousandths) of at least t
RequiredOk(id_fields, t) ==
  \A f \in RequiredFields :
    id_fields[f].listed /\ id_fields[f].text # "" /\ id_fields[f].conf >= t

\* the item holds every extracted field: the reported value, and a confidence
\* within half a hundredth of the reported one
FieldsPersisted(item, id_fields) ==
  /\ item.IDAnalysisResults # <<>>
  /\ \A f \in FieldsToExtract :
       LET stored == item.IDAnalysisResults[1][f]
       IN  /\ stored.text = id_fields[f].text
           /\ 10 * stored.confidence - id_fields[f].conf <= 5
           /\ id_fields[f].conf - 10 * stored.confidence <= 5

\* C12 as stated: the extraction step returns success=True exactly when each
\* required field is present with confidence >= 90, and when it returns
\* success=False for an extracted document the fields are on the record.
C12_ExtractionExactlyWhenAtLeast90 ==
  ana.pc = "done" =>
    /\ ana.success <=> (ana.documents # <<>> /\ RequiredOk(ana.documents[1], 90000))
    /\ (ana.documents # <<>> /\ ~ana.success)
         => \E item \in table : /\ item.VerificationId = VID
                                /\ FieldsPersisted(item, ana.documents[1])

\* C12 amended: when the service returns a document and the record exists,
\* the step returns success=True exactly when each required field has a
\* non-empty value and a confidence that rounds (two decimals, half to even)
\* to at least 90.00, that is a confidence of at least 89.995, and in both
\* outcomes the extracted fields are on the record; otherwise it returns
\* success=False and the record holds no extraction result.
C12_ExtractionPolicy ==
  ana.pc = "done" =>
    IF ana.documents # <<>> /\ Query(table, VID) # <<>>
      THEN /\ ana.success <=> RequiredOk(ana.documents[1], 89995)
           /\ \E item \in table : /\ item.VerificationId = VID
                                  /\ FieldsPersisted(item, ana.documents[1])
      ELSE /\ ~ana.success
           /\ \A item \in table : item.IDAnalysisResults = <<>>

\* the step has returned success=False for a document whose last name was
\* reported at 89.994 and whose first name, reported at 89.995, is stored at
\* 90.00
C12_Witness ==
  /\ ana.pc = "done" /\ ~ana.success /\ ana.documents # <<>>
  /\ ana.documents[1]["last_name"].conf = 89994
  /\ ana.documents[1]["first_name"].conf = 89995
  /\ \E item \in table :
       /\ item.IDAnalysisResults # <<>>
       /\ item.IDAnalysisResults[1]["first_name"].confidence = 9000
       /\ item.IDAnalysisResults[1]["last_name"].confidence = 8999

\* the states of a run in which a step wrapper other than resize is invoked
WrapperStates ==
  {"ModerateImages", "CompareFaces", "CompareFacesCall",
   "SendSuccessEmail", "SendFailureEmail"}

\* C13: a step of the moderation, comparison or notification wrapper leaves
\* the status of every record unchanged (only the resize step writes it).
C13_WrappersLeaveStatus ==
  [][ (\E r \in Runs : runs[r].st \in WrapperStates /\ runs'[r] # runs[r])
        => \A i \in table, j \in table' :
             (i.VerificationId = j.VerificationId /\ i.Timestamp = j.Timestamp)
               => /\ j.Status = i.Status
                  /\ j.StateMachineStatus = i.StateMachineStatus ]_vars

\* C14: no step wrapper lets an exception escape its handler: every
\* invocation ends with a response (the moderation, comparison, resize,
\* notification and extraction handlers catch everything; this is the
\* status-update handler).
C14_NoExceptionEscapes ==
  upd # "raised"

\* the step of run r that is its resize task completing its own work: the
\* resized selfie, the last object it uploads, is stored by this step
ResizeWorked(r) ==
  /\ runs[r].st = "ResizeImages" /\ runs'[r].st = "ResizeCheck"
  /\ ResizedKey(get_s3_key_from_uri(runs[r].input.selfie_key)) \in bucket' \ bucket

\* the item is marked COMPLETED_SUCCESSFUL
MarkedSuccessful(item) == item.StateMachineStatus = "COMPLETED_SUCCESSFUL"

\* C15: when the resize step's own work succeeds, the record is marked
\* COMPLETED_SUCCESSFUL with both resized-image references set and the step
\* returns success=True; and a record becomes COMPLETED_SUCCESSFUL only in
\* such a step.
C15_ResizeMarksSuccessful ==
  [][ /\ \A r \in Runs : ResizeWorked(r) =>
           /\ runs'[r].resize_result.success
           /\ \E item \in table' :
                /\ item.VerificationId = runs[r].input.verification_id
                /\ MarkedSuccessful(item)
                /\ item.ResizedDLImageS3Key # NoUri
                /\ item.ResizedSelfieImageS3Key # NoUri
      /\ (\E item \in table' : MarkedSuccessful(item)
            /\ ~\E old \in table : old.Timestamp = item.Timestamp /\ MarkedSuccessful(old))
           => \E r \in Runs :
                runs[r].st = "ResizeImages" /\ runs'[r].resize_result.success ]_vars

\* the step of run r that is its notification task failing to send: the
\* handler answered without a mail sent, or the task's invocation failed
SendFailed(r) ==
  /\ runs[r].st \in {"SendSuccessEmail", "SendFailureEmail"}
  /\ runs'[r] # runs[r]
  /\ \/ runs'[r].mail.kind # "none" /\ ~runs'[r].mail.sent
     \/ runs'[r].failed = "notify"

\* C16: a failure to send the notification changes neither the record nor
\* the outcome of the run: SucceedState follows the success notification
\* step and FailState the failure notification step.
C16_SendFailureHarmless ==
  [][ \A r \in Runs : SendFailed(r) =>
        /\ table' = table
        /\ runs'[r].st = IF runs[r].st = "SendSuccessEmail"
                           THEN "SucceedState" ELSE "FailState" ]_vars

\* the submission ingress has answered lacks an image or carries one that is
\* not valid base64
InvalidSubmission ==
  /\ ing.pc = "done"
  /\ {ing.identity, ing.selfie} \cap {"missing", "malformed", "garbled"} # {}

\* C17: ingress answers 400 to every submission in which an image is missing
\* or is not decodable base64.
C17_InvalidSubmissionGets400 ==
  InvalidSubmission => ing.code = 400

\* ingress has rejected the submission at validation: an image is missing, or
\* decoding an image raised
RejectedAtValidation ==
  /\ ing.pc = "done"
  /\ \/ "missing" \in {ing.identity, ing.selfie}
     \/ "raises" \in {b64decode(ing.identity), b64decode(ing.selfie)}

\* C18: when ingress has rejected a submission at validation, no record has
\* been created and no image has been written to the object store.
C18_RejectionWritesNothing ==
  RejectedAtValidation => (table = {} /\ bucket = {})

\* ingress has rejected, without writing anything, a submission whose identity
\* image was valid and whose selfie could not be decoded
C18_Witness ==
  /\ ing.pc = "done" /\ ing.code = 500
  /\ ing.identity = "valid" /\ ing.selfie = "malformed"
  /\ table = {} /\ bucket = {}

\* the records of the submission
RecordsOf(vid) == {item \in table : item.VerificationId = vid}

\* C19: once ingress has answered 200, both originals are stored under keys
\* named after the verification id and exactly one record of that id exists,
\* with Status PROCESSING (nothing but the trigger running yet); and no step
\* of ingress starts or advances an execution.
C19_IngressSuccess ==
  [][ /\ ing' # ing => UNCHANGED <<runs, nExec>>
      /\ ing'.code = 200 =>
           /\ \E k \in bucket' : k.dir = "identity" /\ k.name = VID
           /\ \E k \in bucket' : k.dir = "selfie" /\ k.name = VID
           /\ Cardinality({item \in table' : item.VerificationId = VID}) = 1
           /\ \A item \in table' : item.VerificationId = VID
                                     => item.Status = "PROCESSING" ]_vars

\* ingress has answered 200 and the trigger has already handled the selfie
\* notification, with no execution started
C19_Witness ==
  /\ ing.code = 200
  /\ Cardinality(RecordsOf(VID)) = 1
  /\ {IdKey, SelfieKey} \subseteq bucket
  /\ \E i \in Deliveries : trig[i].pc = "done" /\ trig[i].key = SelfieKey
  /\ nExec = 0

\* both upload flags are recorded on the record of the submission
BothUploadsRecorded ==
  \E item \in RecordsOf(VID) : item.identityUploaded /\ item.selfieUploaded

\* C20: the trigger starts an execution (or is about to, having decided to)
\* only when both upload flags are recorded; invocations for one image only
\* never start one.
C20_StartNeedsBothUploads ==
  /\ (TriggerStarted # {} \/ \E i \in Deliveries : trig[i].pc = "start")
       => BothUploadsRecorded
  /\ Cardinality({trig[i].key : i \in 1..nDeliv}) <= 1 => TriggerStarted = {}

\* the trigger has started an execution after an invocation for each image
C20_Witness ==
  /\ TriggerStarted # {}
  /\ {trig[i].key : i \in 1..nDeliv} = OriginalKeys
  /\ BothUploadsRecorded

\* C21: whatever upload events are delivered for one verification, repeated
\* ones included, the trigger starts at most one execution for it.
C21_StartedAtMostOnce ==
  Cardinality({r \in TriggerStarted : runs[r].input.verification_id = VID}) <= 1

\* ----------------------------------------------------------------- deletion
\* the deletion request answers in this step
DeleteAnswers == del.pc # "done" /\ del'.pc = "done"

\* C22: a deletion request for an existing verification_id that returns
\* success has deleted both stored original images and the record.
C22_SuccessDeletesEverything ==
  [][ (DeleteAnswers /\ del'.code = 200)
        => (OriginalKeys \cap bucket' = {} /\ RecordsOf(VID)' = {}) ]_vars

\* C23: once a deletion request for a verification_id has returned success, a
\* lookup of that id finds no record, whatever ran concurrently.
C23_DeletedStaysDeleted ==
  del.code = 200 => RecordsOf(VID) = {}

\* C24: a deletion request for a verification_id that has no record returns
\* 404 and changes neither the record store nor the object store.
C24_UnknownIdGets404 ==
  [][ (del.pc = "idle" /\ del'.pc # "idle" /\ del'.params = "given"
         /\ RecordsOf(VID) = {})
        => (del'.pc = "done" /\ del'.code = 404 /\ ~del'.raised
              /\ UNCHANGED <<table, bucket>>) ]_vars

\* a request for an id without a record was answered 404, while the stored
\* originals of the submission are still in the bucket
C24_Witness ==
  /\ del.pc = "done" /\ del.params = "given" /\ del.code = 404
  /\ RecordsOf(VID) = {}
  /\ OriginalKeys \subseteq bucket

\* C25: a deletion request whose record deletion fails returns an error
\* response (500), never a success response.
C25_FailedDeletionGets500 ==
  [][ (del.pc = "delete" /\ del'.pc = "done" /\ RecordsOf(VID)' = RecordsOf(VID)
         /\ RecordsOf(VID) # {})
        => del'.code = 500 ]_vars

\* ------------------------------------------------------------------ records
\* C26: there is at most one record per verification_id in every reachable
\* state, and exactly one from a successful ingress until deletion.
C26_OneRecordPerId ==
  /\ Cardinality(RecordsOf(VID)) <= 1
  /\ (ing.code = 200 /\ del.code # 200) => Cardinality(RecordsOf(VID)) = 1

\* after a successful ingress the trigger has recorded an upload and a run
\* has written moderation, comparison and resize results: still one record
C26_Witness ==
  /\ ing.code = 200
  /\ Cardinality(RecordsOf(VID)) = 1
  /\ \E item \in RecordsOf(VID) :
       /\ item.selfieUploaded
       /\ item.ModerationLabels # <<>>
       /\ item.FaceMatchResults # <<>>
       /\ item.StateMachineStatus = "COMPLETED_SUCCESSFUL"

\* -------------------------------------------------------------------- retry
\* the status the comparison handler writes last in an attempt that ended
\* with the given response and results
AttemptStatus(result, face) ==
  IF ~result.full THEN "FACE_COMPARISON_FAILED"
  ELSE IF comparison_success(face[1]) THEN "FACE_MATCH_SUCCESSFUL"
  ELSE "FACE_MATCH_FAILED"

\* C27: when a step has been invoked again with the same input on a record
\* holding its results, the record's result fields and status are those of
\* one attempt: here, once the comparison step has returned, the record holds
\* the status and the results of the attempt that returned.
C27_RetryLeavesOneAttempt ==
  \A r \in Runs :
    runs[r].st = "ComparisonCheck" =>
      \A item \in RecordsOf(runs[r].input.verification_id) :
        /\ item.Status = AttemptStatus(runs[r].comparison_result, runs[r].face)
        /\ item.FaceMatchResults = runs[r].face

\* C28: the result fields of extraction, moderation and comparison are absent
\* until their step runs and, once set, no later step execution overwrites
\* them.
C28_ResultsSetOnce ==
  [][ /\ \A i \in table :
           /\ i.ModerationLabels # <<>> => \E r \in Runs : "moderate" \in runs[r].ran
           /\ i.FaceMatchResults # <<>> => \E r \in Runs : "compare" \in runs[r].ran
           /\ i.IDAnalysisResults # <<>> => ana.pc = "done"
      /\ \A i \in table, j \in table' :
           (i.VerificationId = j.VerificationId /\ i.Timestamp = j.Timestamp)
             => /\ i.ModerationLabels # <<>> => j.ModerationLabels = i.ModerationLabels
                /\ i.FaceMatchResults # <<>> => j.FaceMatchResults = i.FaceMatchResults
                /\ i.IDAnalysisResults # <<>> => j.IDAnalysisResults = i.IDAnalysisResults
    ]_vars

\* the attributes ingress gives a record for good
Immutable ==
  {"VerificationId", "Timestamp", "TTL", "UserEmail",
   "IdentificationS3Key", "SelfieImageS3Key"}

\* C29: no operation after ingress changes a record's verification_id, its
\* created-at sort key, its expiry, the requester's address or the references
\* to the original images: every record is still there after the step, with
\* these attributes as they were.
C29_IngressFieldsKept ==
  [][ \A i \in table :
        \E j \in table' : \A f \in Immutable : j[f] = i[f] ]_vars

\* the trigger, moderation, comparison, resize and a status update have all
\* written to the record, which still carries what ingress gave it
C29_Witness ==
  /\ upd = "returned"
  /\ \E item \in table :
       /\ \A f \in Immutable : item[f] = InitialItem(Email)[f]
       /\ item.selfieS3Key = SelfieKey
       /\ item.ModerationLabels # <<>>
       /\ item.FaceMatchResults # <<>>
       /\ item.ResizedDLImageS3Key # NoUri

\* ------------------------------------------------------------- sequencing
\* the response a run holds from a step's task
StepResult(r, step) ==
  IF step = "moderate" THEN runs[r].moderation_result
  ELSE IF step = "compare" THEN runs[r].comparison_result
  ELSE runs[r].resize_result

\* the steps of a run that were invoked and have not returned
Unreturned(r) == {step \in runs[r].ran : ~StepResult(r, step).present}

\* the run is at or past one of its notification tasks
NotifyInvoked(r) ==
  \/ runs[r].st \in {"SendSuccessEmail", "SendFailureEmail", "SucceedState", "FailState"}
  \/ runs[r].failed = "notify"

\* C30: within one run at most one step is executing at any time, and the
\* comparison, the resize and the notification are invoked only after the
\* step before them has returned, with its record write made.
C30_StepsInSequence ==
  \A r \in Runs :
    LET items == RecordsOf(runs[r].input.verification_id)
    IN  /\ Cardinality(Unreturned(r)) <= 1
        /\ "compare" \in runs[r].ran
             => /\ runs[r].moderation_result.present
                /\ \E item \in items : item.ModerationLabels # <<>>
        /\ "resize" \in runs[r].ran
             => /\ runs[r].comparison_result.present
                /\ \E item \in items : item.FaceMatchResults # <<>>
        /\ NotifyInvoked(r) => Unreturned(r) = {}
        /\ runs[r].mail.kind = "success"
             => \E item \in items : item.ResizedDLImageS3Key # NoUri

\* a run went through moderation, comparison, resize and the success
\* notification, one after the other
C30_Witness ==
  \E r \in Runs :
    /\ runs[r].ran = {"moderate", "compare", "resize"}
    /\ runs[r].st = "SucceedState"
    /\ runs[r].mail.kind = "success"

\* ------------------------------------------------------------------ payload
\* C31: the input with which the trigger starts a run carries every field the
\* run's first states and its steps read, so that a started run enters
\* STARTED, goes on to PROCESSING and invokes the moderation step.
C31_TriggerPayloadComplete ==
  \A r \in TriggerStarted :
    /\ RequiredInput \subseteq PayloadFields(runs[r].input)
    /\ runs[r].st \notin {"InitialState", "ProcessVerification", "ModerateImages"}
         => "moderate" \in runs[r].ran

\* --------------------------------------------------------------------- keys
\* the derived images in the bucket
DerivedKeys == bucket \ OriginalKeys

\* C32: a derived image is stored under resized_<category>/<id>.<ext>, and the
\* resized-image references that ingress recorded name the keys the resize
\* step writes.
C32_ResizedReferencesMatch ==
  \A item \in RecordsOf(VID) :
    /\ \A key \in DerivedKeys :
         S3Uri(key) \in {item.IdentificationImageResizedS3Key,
                         item.SelfieImageResizedS3Key}
    /\ item.ResizedDLImageS3Key \in {NoUri, item.IdentificationImageResizedS3Key}
    /\ item.ResizedSelfieImageS3Key \in {NoUri, item.SelfieImageResizedS3Key}

\* ------------------------------------------------------------------- expiry
\* C33: on every record created by ingress, the expiry is the creation time
\* plus the retention window of TTL_DAYS days.
C33_ExpiryIsCreationPlusWindow ==
  \A item \in table : item.TTL = item.Timestamp + TTL_DAYS * SecondsPerDay

\* a submission received at the latest clock reading has its record
C33_Witness ==
  /\ ing.code = 200
  /\ \E item \in table : item.Timestamp >= MaxClock

\* ------------------------------------------------------------------ timeout
\* C34: a run that exceeds its time bound is ended as failed whatever step is
\* in flight, and its verification is marked failed: the record of a timed-out
\* run holds the failed status.
C34_TimedOutMarkedFailed ==
  \A r \in Runs :
    runs[r].st = "TimedOut" =>
      \A item \in RecordsOf(runs[r].input.verification_id) :
        item.StateMachineStatus = "COMPLETED_FAILED" /\ item.Status = "FAILED"

\* ------------------------------------------------------------ upload events
\* the trigger invocations that handled the event of the given key
HandledBy(key) == {i \in Deliveries : trig[i].key = key /\ trig[i].pc = "done"}

\* the upload flag the record keeps for the given original
UploadFlag(item, key) ==
  IF key = IdKey THEN item.identityUploaded ELSE item.selfieUploaded

\* C35: each original stored by ingress produces an object-created event for
\* the trigger, the trigger classifies it under its image's category, and once
\* both events are handled both upload flags are set on the record.
C35_BothOriginalsNotified ==
  /\ \A key \in OriginalKeys \cap bucket :
       key \in events \/ \E i \in Deliveries : trig[i].key = key
  /\ \A i \in Deliveries :
       trig[i].key # NoKey => get_file_info_from_key(trig[i].key).type = trig[i].key.dir
  /\ (\A key \in OriginalKeys : HandledBy(key) # {})
       => \A item \in RecordsOf(VID) : item.identityUploaded /\ item.selfieUploaded

\* C36: whenever the trigger handles the event of an image stored by ingress,
\* the record is already visible, so the arrival is recorded: once the
\* invocation has returned and ingress has answered 200, the record carries
\* the upload flag of that image.
C36_ArrivalRecorded ==
  \A key \in OriginalKeys :
    (ing.code = 200 /\ HandledBy(key) # {})
      => \E item \in RecordsOf(VID) : UploadFlag(item, key)

\* ----------------------------------------------------------- resize failure
\* C37: a resize step that fails returns success=False and leaves the record
\* marked COMPLETED_FAILED with the error message, with no resized-image
\* reference and no COMPLETED_SUCCESSFUL written.
C37_ResizeFailureRecorded ==
  [][ \A r \in Runs :
        ( /\ runs[r].st = "ResizeImages"
          /\ runs'[r].st = "ResizeCheck"
          /\ ~runs'[r].resize_result.success )
          => \A item \in RecordsOf(runs[r].input.verification_id)' :
               /\ item.StateMachineStatus = "COMPLETED_FAILED"
               /\ item.ErrorMessage # Absent
               /\ item.ResizedDLImageS3Key = NoUri
               /\ item.ResizedSelfieImageS3Key = NoUri ]_vars

\* ------------------------------------------------------------ notifications
\* C38: a run sends at most one notification, never both kinds; the success
\* notification is sent only when moderation, comparison and resize all
\* returned success=True, and the run ends in SucceedState only after the
\* success notification step.
C38_OneNotificationPerRun ==
  \A r \in Runs :
    /\ Len(runs[r].outbox) <= 1
    /\ \A i, j \in 1..Len(runs[r].outbox) : runs[r].outbox[i] = runs[r].outbox[j]
    /\ runs[r].mail.kind = "success"
         => /\ runs[r].moderation_result.success
            /\ runs[r].comparison_result.success
            /\ runs[r].resize_result.success
    /\ runs[r].st = "SucceedState" => runs[r].mail.kind = "success"

\* ---------------------------------------------------------- missing record
\* the step is the update_item of a trigger invocation whose query found the
\* record before it went missing
StaleTriggerWrite == \E i \in Deliveries : trig[i].pc = "update" /\ trig'[i].pc # "update"

\* the run's task, invoked in this step, answers with success=False
AnswersFailure(r, task, check, result) ==
  (runs[r].st = task /\ runs'[r].st = check)
    => (runs'[r][result].present /\ ~runs'[r][result].success)

\* C39: when no record exists for the verification_id, a handler that
\* resolves the sort key first writes nothing to the record store; the step
\* wrappers report the failure, and the trigger reports neither image present
\* and starts no run.
C39_NoRecordNoWrite ==
  [][ (RecordsOf(VID) = {} /\ ~StaleTriggerWrite)
        => /\ table' = table
           /\ \A r \in Runs :
                /\ AnswersFailure(r, "ModerateImages", "ModerationCheck", "moderation_result")
                /\ AnswersFailure(r, "CompareFaces", "ComparisonCheck", "comparison_result")
                /\ AnswersFailure(r, "CompareFacesCall", "ComparisonCheck", "comparison_result")
                /\ AnswersFailure(r, "ResizeImages", "ResizeCheck", "resize_result")
                /\ runs[r].st = "CompareFaces" => runs'[r].st # "CompareFacesCall"
           /\ nUpd' # nUpd => upd' = "raised"
           /\ \A i \in Deliveries :
                (trig[i].pc = "query" /\ trig'[i].pc # "query")
                  => /\ trig'[i].pc = "decide"
                     /\ ~trig'[i].id_present /\ ~trig'[i].selfie_present
           /\ \A i \in Deliveries :
                (trig[i].pc = "decide" /\ trig'[i].pc # "decide")
                  => trig'[i].pc = "done" /\ nExec' = nExec
    ]_vars

\* with no record in the store, a trigger invocation has answered without a
\* start, a status update has raised, and a run's resize has reported failure
C39_Witness ==
  /\ RecordsOf(VID) = {}
  /\ upd = "raised"
  /\ \E i \in Deliveries : trig[i].pc = "done" /\ ~trig[i].id_present /\ ~trig[i].selfie_present
  /\ \E r \in Runs : /\ runs[r].st = "ResizeCheck"
                     /\ ~runs[r].resize_result.success

\* ----------------------------------------------------------- feedback loop
\* C40: no feedback loop: every object-created event and every trigger
\* invocation names an original of the submission, never a derived image; the
\* bucket holds only the originals and their resized images, never a resized
\* image of a resized image; and the step that stores a derived image adds no
\* event, sets no upload flag and starts no run.
C40_NoFeedbackLoop ==
  [][/\ events' \subseteq OriginalKeys
     /\ \A i \in Deliveries : trig'[i].key \in OriginalKeys \cup {NoKey}
     /\ bucket' \subseteq StoredKeys
     /\ (bucket' \ bucket) \ OriginalKeys # {}
          => /\ events' = events
             /\ trig' = trig
             /\ nExec' = nExec
             /\ \A item \in RecordsOf(VID) : \E after \in table' :
                  /\ after.identityUploaded = item.identityUploaded
                  /\ after.selfieUploaded = item.selfieUploaded]_vars

\* both derived images are stored, the event of the notified original was
\* handled, and no event is pending
C40_Witness ==
  /\ DerivedKeys = {ResizedKey(key) : key \in OriginalKeys}
  /\ HandledBy(SelfieKey) # {}
  /\ events = {}

====
